---- MODULE Spec2Model ----
(***************************************************************************)
(* Verification model of the Alqemist request-routing and scheduling core: *)
(* the TaskScheduler of src/lib/task-scheduler.ts and the UsageTracker     *)
(* with the chat route that consults it.                                   *)
(*                                                                         *)
(* Time is counted in minutes (the source counts milliseconds; every       *)
(* duration in the source is a whole number of minutes).  A task's id is   *)
(* its position in the scheduled_tasks table: rows are only ever inserted  *)
(* and updated, never deleted.  Columns no operation reads (description,   *)
(* created_at, updated_at, the cost and metadata of a usage event) are     *)
(* left out.  Every query succeeds, except in the specifications named      *)
(* Faulty, where a statement may fail with a persistence error.            *)
(***************************************************************************)
EXTENDS Integers, Sequences, FiniteSets, Bags, TLC

VARIABLES
    scheduled_tasks,   \* table scheduled_tasks: sequence of rows, id = index
    now,               \* wall clock, minutes
    sent,              \* task ids notified by the latest processDueTasks run
    lastOp,            \* the latest TaskScheduler call and its arguments
    calls,             \* number of TaskScheduler calls made so far
    usage_events,      \* table usage_events: bag of rows
    today,             \* calendar date [year, month] of the usage clock
    req,               \* in-flight POST /chat requests
    dispatched,        \* bag of [userId, year, month]: requests sent to a model
    lastCheck,         \* the latest canMakeRequest call, its inputs and result
    tracked,           \* number of direct UsageTracker.track calls so far
    lastTrack,         \* the latest UsageTracker.track call and its outcome
    ai_personas,       \* table ai_personas: sequence of rows, id = index
    proactive_suggestions, \* table proactive_suggestions, id = index
    http,              \* the latest exchange of a tasks, personas or
                       \* suggestions endpoint
    httpCalls,         \* number of such exchanges so far
    optimizer,         \* the ModelOptimizer instance: tier and strategy
    recommendation,    \* the recommendation object the caller holds
    lastRecommend,     \* the latest recommendForInput call and what it returned
    failover,          \* the latest handleModelFailure call and its result
    failures,          \* number of handleModelFailure calls so far
    lastEstimate       \* the latest estimateConversationCost call

vars == <<scheduled_tasks, now, sent, lastOp, calls,
          usage_events, today, req, dispatched, lastCheck, tracked,
          lastTrack,
          ai_personas, proactive_suggestions, http, httpCalls,
          optimizer, recommendation, lastRecommend, failover, failures,
          lastEstimate>>

schedVars == <<scheduled_tasks, now, sent, lastOp, calls>>
usageVars ==
    <<usage_events, today, req, dispatched, lastCheck, tracked, lastTrack>>
httpVars == <<ai_personas, proactive_suggestions, http, httpCalls>>
optVars ==
    <<optimizer, recommendation, lastRecommend, failover, failures,
      lastEstimate>>

(***************************************************************************)
(* Bounds of the model.                                                    *)
(***************************************************************************)
MaxTasks == 11      \* rows the table may hold
MaxCalls == 3       \* TaskScheduler calls in one behaviour of SchedulerSpec
MaxExpansions == 1  \* scheduleTask calls in one behaviour of ExpansionSpec
MaxTaskIdArg == 2   \* largest task id a caller passes
MaxNow == 480       \* the clock stops advancing here
TickStep == 4 * 60     \* minutes between two observations of the clock
MaxOccurrencesArg == 3   \* largest maxOccurrences a caller passes
MaxRequests == 2    \* concurrent POST /chat requests
MaxTracks == 1      \* direct UsageTracker.track calls in one behaviour
MaxMonthSteps == 1  \* month changes in one behaviour
MaxHttpCalls == 2   \* tasks, personas and suggestions exchanges in one behaviour
MaxPersonaIdArg == 2     \* largest persona id a caller passes
MaxSuggestionIdArg == 2  \* largest suggestion id a caller passes
MaxGenerated == 1   \* most suggestions one generate call stores
MaxFailures == 2    \* handleModelFailure calls on one recommendation

Users == {"u1", "u2"}

(***************************************************************************)
(* ScheduledTask and its metadata (task-scheduler.ts 4-28).                *)
(***************************************************************************)
NoDate == -1        \* an absent optional Date
NoMinutes == -1     \* an absent snoozeMinutes argument

\* metadata.customRecurrence; given = FALSE is the absent block, and
\* maxOccurrences = 0 the absent (or zero, equally falsy) maxOccurrences.
NoCustomRecurrence ==
    [given |-> FALSE, interval |-> 0, unit |-> "days",
     endDate |-> NoDate, maxOccurrences |-> 0]

Metadata(priority, category, customRecurrence) ==
    [priority |-> priority, category |-> category,
     customRecurrence |-> customRecurrence]

ScheduledTask(userId, title, taskType, scheduledFor, recurrencePattern, status, metadata) ==
    [userId |-> userId, title |-> title, taskType |-> taskType,
     scheduledFor |-> scheduledFor, recurrencePattern |-> recurrencePattern,
     status |-> status, metadata |-> metadata]

NoTask ==
    ScheduledTask("", "", "reminder", 0, "none", "pending",
                  Metadata("low", "", NoCustomRecurrence))

(***************************************************************************)
(* getRecurrenceInterval (task-scheduler.ts 408-415), in minutes.          *)
(***************************************************************************)
getRecurrenceInterval(pattern) ==
    CASE pattern = "daily" -> 24 * 60
      [] pattern = "weekly" -> 7 * 24 * 60
      [] pattern = "monthly" -> 30 * 24 * 60
      [] OTHER -> 24 * 60

(***************************************************************************)
(* scheduleRecurringTasks (task-scheduler.ts 378-406): the rows of the     *)
(* siblings i = 1 .. maxOccurrences - 1, cut at the first one after the    *)
(* end date.                                                               *)
(***************************************************************************)
DefaultMaxOccurrences == 10

RECURSIVE recurringLoop(_, _, _, _)
recurringLoop(task, i, maxOccurrences, interval) ==
    LET cr == task.metadata.customRecurrence
        nextDate == task.scheduledFor + interval * i
    IN  IF ~(i < maxOccurrences) THEN <<>>
        ELSE IF cr.given /\ cr.endDate # NoDate /\ nextDate > cr.endDate
             THEN <<>>
        ELSE <<ScheduledTask(task.userId, task.title, task.taskType, nextDate,
                             task.recurrencePattern, "pending", task.metadata)>>
             \o recurringLoop(task, i + 1, maxOccurrences, interval)

\* the loop of scheduleRecurringTasks started at i = 0
scheduleRecurringTasks_FromZero(task) ==
    LET cr == task.metadata.customRecurrence
        maxOccurrences == IF cr.given /\ cr.maxOccurrences # 0
                          THEN cr.maxOccurrences
                          ELSE DefaultMaxOccurrences
        interval == getRecurrenceInterval(task.recurrencePattern)
    IN  recurringLoop(task, 0, maxOccurrences, interval)

scheduleRecurringTasks(task) ==
    LET cr == task.metadata.customRecurrence
        maxOccurrences == IF cr.given /\ cr.maxOccurrences # 0
                          THEN cr.maxOccurrences
                          ELSE DefaultMaxOccurrences
        interval == getRecurrenceInterval(task.recurrencePattern)
    IN  recurringLoop(task, 1, maxOccurrences, interval)

(***************************************************************************)
(* scheduleTask (task-scheduler.ts 72-107): the table after the call.      *)
(***************************************************************************)
scheduleTask(table, task) ==
    Append(table, task)
    \o (IF task.recurrencePattern # "none"
        THEN scheduleRecurringTasks(task) ELSE <<>>)

\* scheduleTask that undoes its INSERTs when a later one fails
scheduleTaskOutcome_Atomic(table, task, inserted) ==
    IF inserted >= Len(scheduleTask(<<>>, task))
    THEN [table |-> scheduleTask(table, task), thrown |-> FALSE]
    ELSE [table |-> table, thrown |-> TRUE]

\* scheduleTask when the database fails once `inserted` INSERTs of the call
\* have succeeded: the statements run one by one outside any transaction,
\* and the catch of scheduleTask logs the error and throws it again
scheduleTaskOutcome(table, task, inserted) ==
    LET rows == scheduleTask(<<>>, task)
    IN  IF inserted >= Len(rows)
        THEN [table |-> scheduleTask(table, task), thrown |-> FALSE]
        ELSE [table |-> table \o SubSeq(rows, 1, inserted), thrown |-> TRUE]

(***************************************************************************)
(* getTaskById (task-scheduler.ts 490-501): the row, whoever owns it.      *)
(***************************************************************************)
HasTask(table, taskId) == taskId \in 1..Len(table)

(***************************************************************************)
(* The UPDATE ... WHERE id = $1 AND user_id = $2 of completeTask,          *)
(* snoozeTask and cancelTask (task-scheduler.ts 158-162, 182-186, 197-201).*)
(***************************************************************************)
\* assigned is the table with the SET clause applied to every row
UpdateWhere(table, taskId, userId, assigned) ==
    [i \in 1..Len(table) |->
        IF i = taskId /\ table[i].userId = userId
        THEN assigned[i] ELSE table[i]]

(***************************************************************************)
(* generateFollowUpSuggestions (task-scheduler.ts 466-488).                *)
(***************************************************************************)
\* generateFollowUpSuggestions also triggered by a high priority
generateFollowUpSuggestions_AlsoHighPriority(table, taskId, userId, clock) ==
    IF ~HasTask(table, taskId) THEN table
    ELSE IF \/ table[taskId].metadata.category = "meeting"
            \/ table[taskId].metadata.priority = "high"
         THEN scheduleTask(table,
                  ScheduledTask(userId, "Meeting Follow-up", "suggestion",
                                clock + 30, "none", "pending",
                                Metadata("medium", "followup",
                                         NoCustomRecurrence)))
    ELSE table

generateFollowUpSuggestions(table, taskId, userId, clock) ==
    IF ~HasTask(table, taskId) THEN table
    ELSE IF table[taskId].metadata.category = "meeting"
         THEN scheduleTask(table,
                  ScheduledTask(userId, "Meeting Follow-up", "suggestion",
                                clock + 30, "none", "pending",
                                Metadata("medium", "followup",
                                         NoCustomRecurrence)))
    ELSE table

(***************************************************************************)
(* completeTask, snoozeTask, cancelTask (task-scheduler.ts 156-205).       *)
(***************************************************************************)
completeTask(table, taskId, userId, clock) ==
    LET assigned == [i \in 1..Len(table) |->
                        [table[i] EXCEPT !.status = "completed"]]
    IN  generateFollowUpSuggestions(
            UpdateWhere(table, taskId, userId, assigned),
            taskId, userId, clock)

\* snoozeTask counting the minutes from the task's due time
snoozeTask_FromDueTime(table, taskId, userId, snoozeMinutesArg, clock) ==
    LET snoozeMinutes == IF snoozeMinutesArg = NoMinutes
                         THEN 60 ELSE snoozeMinutesArg
        assigned == [i \in 1..Len(table) |->
                        [table[i] EXCEPT !.scheduledFor = @ + snoozeMinutes,
                                         !.status = "snoozed"]]
    IN  UpdateWhere(table, taskId, userId, assigned)

snoozeTask(table, taskId, userId, snoozeMinutesArg, clock) ==
    LET snoozeMinutes == IF snoozeMinutesArg = NoMinutes
                         THEN 60 ELSE snoozeMinutesArg
        newScheduledFor == clock + snoozeMinutes
        assigned == [i \in 1..Len(table) |->
                        [table[i] EXCEPT !.scheduledFor = newScheduledFor,
                                         !.status = "snoozed"]]
    IN  UpdateWhere(table, taskId, userId, assigned)

cancelTask(table, taskId, userId) ==
    LET assigned == [i \in 1..Len(table) |->
                        [table[i] EXCEPT !.status = "cancelled"]]
    IN  UpdateWhere(table, taskId, userId, assigned)

\* the three calls letting a persistence error through to their caller
taskActionOutcome_Rethrows(table, action, taskId, userId, minutes, clock, fault) ==
    LET result ==
            IF action = "complete"
            THEN completeTask(table, taskId, userId, clock)
            ELSE IF action = "snooze"
            THEN snoozeTask(table, taskId, userId, minutes, clock)
            ELSE cancelTask(table, taskId, userId)
    IN  [table |-> IF fault = "update" THEN table
                   ELSE IF fault = "none" THEN result
                   ELSE SubSeq(result, 1, Len(table)),
         thrown |-> fault = "update"]

\* completeTask, snoozeTask and cancelTask when a statement may fail: the
\* UPDATE, the SELECT of getTaskById or the INSERT of the follow-up.  Each
\* wraps its body in a try whose catch only logs: after a failed UPDATE the
\* table is as before; in completeTask a failed lookup yields null and a
\* failed INSERT is caught, and either way no follow-up row is stored.
taskActionOutcome(table, action, taskId, userId, minutes, clock, fault) ==
    LET result ==
            IF action = "complete"
            THEN completeTask(table, taskId, userId, clock)
            ELSE IF action = "snooze"
            THEN snoozeTask(table, taskId, userId, minutes, clock)
            ELSE cancelTask(table, taskId, userId)
    IN  [table |-> IF fault = "update" THEN table
                   ELSE IF fault = "none" THEN result
                   ELSE SubSeq(result, 1, Len(table)),
         thrown |-> FALSE]

(***************************************************************************)
(* processDueTasks (task-scheduler.ts 210-228).  The SELECT returns the    *)
(* pending rows that are due, ordered by scheduled_for; rows with equal    *)
(* due times come in any order.                                            *)
(***************************************************************************)
DueTaskIds(table, clock) ==
    {i \in 1..Len(table) :
        table[i].status = "pending" /\ table[i].scheduledFor <= clock}

RECURSIVE OrderByScheduledFor(_, _)
OrderByScheduledFor(table, ids) ==
    IF ids = {} THEN {<<>>}
    ELSE LET firsts == {i \in ids : \A j \in ids :
                           table[i].scheduledFor <= table[j].scheduledFor}
         IN  UNION {{<<i>> \o rest :
                        rest \in OrderByScheduledFor(table, ids \ {i})} :
                    i \in firsts}

\* generateTaskFollowUp giving the follow-up the metadata of its task
generateTaskFollowUp_KeepsMetadata(table, task, clock) ==
    IF task.metadata.priority = "high"
    THEN scheduleTask(table,
             ScheduledTask(task.userId, "Follow-up: " \o task.title,
                           "followup", clock + 4 * 60, "none", "pending",
                           task.metadata))
    ELSE table

\* generateTaskFollowUp marking the task it followed up as completed
generateTaskFollowUp_MarksProcessed(table, task, clock) ==
    IF task.metadata.priority = "high"
    THEN scheduleTask([i \in 1..Len(table) |->
                          IF table[i] = task
                          THEN [table[i] EXCEPT !.status = "completed"]
                          ELSE table[i]],
             ScheduledTask(task.userId, "Follow-up: " \o task.title,
                           "followup", clock + 4 * 60, "none", "pending",
                           Metadata("medium", "followup", NoCustomRecurrence)))
    ELSE table

\* generateTaskFollowUp (task-scheduler.ts 443-464)
generateTaskFollowUp(table, task, clock) ==
    IF task.metadata.priority = "high"
    THEN scheduleTask(table,
             ScheduledTask(task.userId, "Follow-up: " \o task.title,
                           "followup", clock + 4 * 60, "none", "pending",
                           Metadata("medium", "followup", NoCustomRecurrence)))
    ELSE table

\* processTask without its test of the recurrence pattern
processTask_IgnoringRecurrence(table, task, clock) ==
    generateTaskFollowUp(table, task, clock)

\* processTask (task-scheduler.ts 417-430), after its notification
processTask(table, task, clock) ==
    IF task.recurrencePattern = "none"
    THEN generateTaskFollowUp(table, task, clock)
    ELSE table

\* the for loop over dueTasks (task-scheduler.ts 220-224); each task is the
\* row as the SELECT returned it
RECURSIVE processLoop(_, _, _, _)
processLoop(table, dueTasks, k, clock) ==
    IF k > Len(dueTasks) THEN table
    ELSE processLoop(processTask(table, dueTasks[k], clock),
                     dueTasks, k + 1, clock)

(***************************************************************************)
(* Inputs of the TaskScheduler calls.  TaskInputs are the tasks scheduled  *)
(* in SchedulerSpec; ExpansionInputs, the wider set of recurring tasks of  *)
(* ExpansionSpec, varies everything scheduleRecurringTasks reads.          *)
(***************************************************************************)
Titles == {"Standup"}
PriorityInputs == {"medium", "high"}
CategoryInputs == {"meeting", "work"}
RecurrencePatterns == {"daily", "weekly", "monthly", "custom"}
UnitInputs == {"hours", "days"}
EndDateInputs == {NoDate, 24 * 60, 14 * 24 * 60}
SnoozeInputs == {NoMinutes, 30}
TaskIdInputs == 1..MaxTaskIdArg

CustomRecurrence(interval, unit, endDate, maxOccurrences) ==
    [given |-> TRUE, interval |-> interval, unit |-> unit,
     endDate |-> endDate, maxOccurrences |-> maxOccurrences]

\* u1's tasks are due at 0 and u2's at 60
TaskInputs ==
    {ScheduledTask(u, "Standup", "reminder", IF u = "u1" THEN 0 ELSE 60,
                   "none", "pending", Metadata(p, c, NoCustomRecurrence)) :
        u \in Users, p \in PriorityInputs, c \in CategoryInputs}
    \cup
    {ScheduledTask("u1", "Standup", "recurring", 0, "daily", "pending",
                   Metadata("high", "work",
                            CustomRecurrence(1, "days", NoDate, 2)))}

ExpansionInputs ==
    {ScheduledTask("u1", t, "recurring", d, r, "pending",
                   Metadata("high", "work", cr)) :
        t \in Titles, d \in {0, 60}, r \in RecurrencePatterns,
        cr \in {NoCustomRecurrence} \cup
               {CustomRecurrence(2, unit, e, n) :
                    unit \in UnitInputs, e \in EndDateInputs,
                    n \in 0..MaxOccurrencesArg}}

Op(op, taskId, userId, minutes, task) ==
    [op |-> op, taskId |-> taskId, userId |-> userId, minutes |-> minutes,
     task |-> task, before |-> Len(scheduled_tasks), at |-> now]

(***************************************************************************)
(* The TaskScheduler calls as actions.                                     *)
(***************************************************************************)
ScheduleTaskFrom(inputs, budget) ==
    /\ calls < budget
    /\ \E task \in inputs :
        /\ Len(scheduleTask(scheduled_tasks, task)) <= MaxTasks
        /\ scheduled_tasks' = scheduleTask(scheduled_tasks, task)
        /\ lastOp' = Op("scheduleTask", Len(scheduled_tasks) + 1,
                        task.userId, NoMinutes, task)
    /\ calls' = calls + 1
    /\ UNCHANGED <<now, sent>>
    /\ UNCHANGED <<usageVars, httpVars, optVars>>

ScheduleTaskCall == ScheduleTaskFrom(TaskInputs, MaxCalls)

ExpandTaskCall == ScheduleTaskFrom(ExpansionInputs, MaxExpansions)

CompleteTaskCall ==
    /\ calls < MaxCalls
    /\ \E taskId \in TaskIdInputs, userId \in Users :
        /\ Len(completeTask(scheduled_tasks, taskId, userId, now)) <= MaxTasks
        /\ scheduled_tasks' = completeTask(scheduled_tasks, taskId, userId, now)
        /\ lastOp' = Op("completeTask", taskId, userId, NoMinutes, NoTask)
    /\ calls' = calls + 1
    /\ UNCHANGED <<now, sent>>
    /\ UNCHANGED <<usageVars, httpVars, optVars>>

SnoozeTaskCall ==
    /\ calls < MaxCalls
    /\ \E taskId \in TaskIdInputs, userId \in Users, minutes \in SnoozeInputs :
        /\ scheduled_tasks' =
               snoozeTask(scheduled_tasks, taskId, userId, minutes, now)
        /\ lastOp' = Op("snoozeTask", taskId, userId, minutes, NoTask)
    /\ calls' = calls + 1
    /\ UNCHANGED <<now, sent>>
    /\ UNCHANGED <<usageVars, httpVars, optVars>>

CancelTaskCall ==
    /\ calls < MaxCalls
    /\ \E taskId \in TaskIdInputs, userId \in Users :
        /\ scheduled_tasks' = cancelTask(scheduled_tasks, taskId, userId)
        /\ lastOp' = Op("cancelTask", taskId, userId, NoMinutes, NoTask)
    /\ calls' = calls + 1
    /\ UNCHANGED <<now, sent>>
    /\ UNCHANGED <<usageVars, httpVars, optVars>>

ProcessDueTasksCall ==
    /\ calls < MaxCalls
    /\ \E order \in OrderByScheduledFor(scheduled_tasks,
                                        DueTaskIds(scheduled_tasks, now)) :
        LET dueTasks == [k \in 1..Len(order) |-> scheduled_tasks[order[k]]]
            result == processLoop(scheduled_tasks, dueTasks, 1, now)
        IN  /\ Len(result) <= MaxTasks
            /\ scheduled_tasks' = result
            /\ sent' = order
    /\ lastOp' = Op("processDueTasks", 0, "", NoMinutes, NoTask)
    /\ calls' = calls + 1
    /\ UNCHANGED now
    /\ UNCHANGED <<usageVars, httpVars, optVars>>

Tick ==
    /\ now + TickStep <= MaxNow
    /\ now' = now + TickStep
    /\ UNCHANGED <<scheduled_tasks, sent, lastOp, calls>>
    /\ UNCHANGED <<usageVars, httpVars, optVars>>

(***************************************************************************)
(* UsageTracker.  SUBSCRIPTION_TIERS with their limits; -1 is unlimited.   *)
(* Storage is counted in MiB here (bytes in the source).                   *)
(***************************************************************************)
UsageLimits(apiCalls, tokens, storage, toolExecutions) ==
    [apiCalls |-> apiCalls, tokens |-> tokens, storage |-> storage,
     toolExecutions |-> toolExecutions]

SUBSCRIPTION_TIERS ==
    << [id |-> "starter",
        limits |-> UsageLimits(10000, 1000000, 1 * 1024, 100)],
       [id |-> "professional",
        limits |-> UsageLimits(100000, 10000000, 10 * 1024, 1000)],
       [id |-> "enterprise",
        limits |-> UsageLimits(-1, -1, 100 * 1024, -1)] >>

EventTypes == {"api_call", "token_usage", "file_upload",
               "attachment_processing", "tool_execution"}

UsageEvent(userId, type, quantity, date) ==
    [userId |-> userId, type |-> type, quantity |-> quantity,
     year |-> date.year, month |-> date.month]

\* new Date(year, monthIndex, day): a month index past December rolls over
\* into the following year
DateOf(year, monthIndex, day) ==
    [year |-> year + (monthIndex \div 12), month |-> monthIndex % 12,
     day |-> day]

NoResetTime == [year |-> 0, month |-> 0, day |-> 0]

\* SUM(quantity) of the rows in a set, each counted as often as it occurs
RECURSIVE SumQuantity(_, _)
SumQuantity(events, rows) ==
    IF rows = {} THEN 0
    ELSE LET row == CHOOSE x \in rows : TRUE
         IN  row.quantity * CopiesIn(row, events)
             + SumQuantity(events, rows \ {row})

(***************************************************************************)
(* getCurrentUsage (usage-tracking 109-183): the sums per kind of the      *)
(* user's events since the first of the current month.  The SELECT runs    *)
(* inside try: with the fault "query", executeQuery rejects and the catch  *)
(* logs the error and returns a usage of zeros.                            *)
(***************************************************************************)
\* getCurrentUsage whose catch answers with the sums of a second SELECT
getCurrentUsage_RetriesQuery(events, userId, date, fault) ==
    LET ofKinds(kinds) ==
            {row \in BagToSet(events) :
                /\ row.userId = userId
                /\ \/ row.year > date.year
                   \/ row.year = date.year /\ row.month >= date.month
                /\ row.type \in kinds}
    IN  [apiCalls |-> SumQuantity(events, ofKinds({"api_call"})),
         tokens |-> SumQuantity(events, ofKinds({"token_usage"})),
         storage |-> SumQuantity(events, ofKinds({"file_upload",
                                                  "attachment_processing"})),
         toolExecutions |-> SumQuantity(events, ofKinds({"tool_execution"}))]

getCurrentUsage(events, userId, date, fault) ==
    LET ofKinds(kinds) ==
            {row \in BagToSet(events) :
                /\ row.userId = userId
                /\ \/ row.year > date.year
                   \/ row.year = date.year /\ row.month >= date.month
                /\ row.type \in kinds}
    IN  IF fault = "query"
        THEN [apiCalls |-> 0, tokens |-> 0, storage |-> 0,
              toolExecutions |-> 0]
        ELSE [apiCalls |-> SumQuantity(events, ofKinds({"api_call"})),
              tokens |-> SumQuantity(events, ofKinds({"token_usage"})),
              storage |-> SumQuantity(events,
                              ofKinds({"file_upload",
                                       "attachment_processing"})),
              toolExecutions |->
                  SumQuantity(events, ofKinds({"tool_execution"}))]

(***************************************************************************)
(* checkLimits (usage-tracking 188-232); the tier is always the first.     *)
(***************************************************************************)
checkLimits(events, userId, date, fault) ==
    LET userTier == SUBSCRIPTION_TIERS[1]
        usage == getCurrentUsage(events, userId, date, fault)
        withinLimits ==
            /\ (userTier.limits.apiCalls = -1
                \/ usage.apiCalls <= userTier.limits.apiCalls)
            /\ (userTier.limits.tokens = -1
                \/ usage.tokens <= userTier.limits.tokens)
            /\ (userTier.limits.storage = -1
                \/ usage.storage <= userTier.limits.storage)
            /\ (userTier.limits.toolExecutions = -1
                \/ usage.toolExecutions <= userTier.limits.toolExecutions)
    IN  [withinLimits |-> withinLimits, usage |-> usage,
         limits |-> userTier.limits, tier |-> userTier]

(***************************************************************************)
(* canMakeRequest (usage-tracking 327-385).                                *)
(***************************************************************************)
Denied(reason, date) ==
    [allowed |-> FALSE, reason |-> reason,
     resetTime |-> DateOf(date.year, date.month + 1, 1)]

Allowed == [allowed |-> TRUE, reason |-> "", resetTime |-> NoResetTime]

\* canMakeRequest denying an api call that exactly reaches the limit
canMakeRequest_DenyAtLimit(events, type, quantity, userId, date, fault) ==
    LET limits == checkLimits(events, userId, date, fault)
    IN  IF ~limits.withinLimits
        THEN Denied("Monthly usage limit exceeded", date)
        ELSE IF /\ type = "api_call"
                /\ limits.limits.apiCalls # -1
                /\ limits.usage.apiCalls + quantity >= limits.limits.apiCalls
        THEN Denied("API call limit exceeded", date)
        ELSE IF /\ type = "token_usage"
                /\ limits.limits.tokens # -1
                /\ limits.usage.tokens + quantity > limits.limits.tokens
        THEN Denied("Token limit exceeded", date)
        ELSE IF /\ type = "tool_execution"
                /\ limits.limits.toolExecutions # -1
                /\ limits.usage.toolExecutions + quantity
                       > limits.limits.toolExecutions
        THEN Denied("Tool execution limit exceeded", date)
        ELSE Allowed

\* canMakeRequest without its test of withinLimits
canMakeRequest_OnlyKindLimits(events, type, quantity, userId, date, fault) ==
    LET limits == checkLimits(events, userId, date, fault)
    IN  IF /\ type = "api_call"
           /\ limits.limits.apiCalls # -1
           /\ limits.usage.apiCalls + quantity > limits.limits.apiCalls
        THEN Denied("API call limit exceeded", date)
        ELSE IF /\ type = "token_usage"
                /\ limits.limits.tokens # -1
                /\ limits.usage.tokens + quantity > limits.limits.tokens
        THEN Denied("Token limit exceeded", date)
        ELSE IF /\ type = "tool_execution"
                /\ limits.limits.toolExecutions # -1
                /\ limits.usage.toolExecutions + quantity
                       > limits.limits.toolExecutions
        THEN Denied("Tool execution limit exceeded", date)
        ELSE Allowed

canMakeRequest(events, type, quantity, userId, date, fault) ==
    LET limits == checkLimits(events, userId, date, fault)
    IN  IF ~limits.withinLimits
        THEN Denied("Monthly usage limit exceeded", date)
        ELSE IF /\ type = "api_call"
                /\ limits.limits.apiCalls # -1
                /\ limits.usage.apiCalls + quantity > limits.limits.apiCalls
        THEN Denied("API call limit exceeded", date)
        ELSE IF /\ type = "token_usage"
                /\ limits.limits.tokens # -1
                /\ limits.usage.tokens + quantity > limits.limits.tokens
        THEN Denied("Token limit exceeded", date)
        ELSE IF /\ type = "tool_execution"
                /\ limits.limits.toolExecutions # -1
                /\ limits.usage.toolExecutions + quantity
                       > limits.limits.toolExecutions
        THEN Denied("Tool execution limit exceeded", date)
        ELSE Allowed

(***************************************************************************)
(* track (usage-tracking 73-104): the table after the INSERT.              *)
(***************************************************************************)
track(events, userId, type, quantity, date) ==
    events (+) SetToBag({UsageEvent(userId, type, quantity, date)})

(***************************************************************************)
(* A track call as a whole (usage-tracking 73-104): auth() and the INSERT  *)
(* run inside try; the catch logs the error and returns.  A fault is what  *)
(* goes wrong in the call: "auth", the session lookup throws or yields no  *)
(* user; "insert", executeQuery rejects.                                   *)
(***************************************************************************)
TrackFaults == {"none", "auth", "insert"}

\* track letting the error escape to its caller
trackOutcome_Rethrows(events, userId, type, quantity, date, fault) ==
    LET error == IF fault = "auth" \/ userId = "" THEN "User not authenticated"
                 ELSE IF fault = "insert" THEN "Database query error"
                 ELSE ""
    IN  [events |-> IF error = ""
                    THEN track(events, userId, type, quantity, date)
                    ELSE events,
         userId |-> userId, fault |-> fault, logged |-> error,
         thrown |-> error]

trackOutcome(events, userId, type, quantity, date, fault) ==
    LET error == IF fault = "auth" \/ userId = "" THEN "User not authenticated"
                 ELSE IF fault = "insert" THEN "Database query error"
                 ELSE ""
    IN  [events |-> IF error = ""
                    THEN track(events, userId, type, quantity, date)
                    ELSE events,
         userId |-> userId, fault |-> fault, logged |-> error,
         thrown |-> ""]

NoTrack == [userId |-> "", fault |-> "none", logged |-> "", thrown |-> ""]

\* what lastTrack keeps of an outcome
TrackRecord(outcome) ==
    [userId |-> outcome.userId, fault |-> outcome.fault,
     logged |-> outcome.logged, thrown |-> outcome.thrown]

(***************************************************************************)
(* POST /chat (app/api/chat/route.ts 23-94), one action per stretch        *)
(* between two awaits.  A request r is idle until it arrives.              *)
(***************************************************************************)
Requests == 1..MaxRequests
NoUser == ""
StartDate == [year |-> 2025, month |-> 10]

Check(type, quantity, userId, fault) ==
    [type |-> type, quantity |-> quantity, userId |-> userId, at |-> today,
     fault |-> fault,
     recorded |-> getCurrentUsage(usage_events, userId, today, "none"),
     withinLimits |->
         checkLimits(usage_events, userId, today, fault).withinLimits,
     usage |-> getCurrentUsage(usage_events, userId, today, fault),
     result |-> canMakeRequest(usage_events, type, quantity, userId, today,
                               fault)]

NoCheck ==
    [type |-> "", quantity |-> 0, userId |-> NoUser, at |-> StartDate,
     fault |-> "none",
     recorded |-> [apiCalls |-> 0, tokens |-> 0, storage |-> 0,
                   toolExecutions |-> 0],
     withinLimits |-> TRUE,
     usage |-> [apiCalls |-> 0, tokens |-> 0, storage |-> 0,
                toolExecutions |-> 0],
     result |-> Allowed]

\* the JSON body of a response; the 401 and 200 responses carry none
NoBody == [error |-> "", message |-> "", resetTime |-> NoResetTime]

\* modelsTried counts the provider calls made for the request; surfaced is
\* the provider error that reached the caller, "none" if none did
Request(pc, userId, status) ==
    [pc |-> pc, userId |-> userId, status |-> status, body |-> NoBody,
     modelsTried |-> 0, surfaced |-> "none"]

\* lines 34-41: the 429 response to a denied request
LimitExceeded(userId, usageLimits) ==
    [Request("done", userId, 429) EXCEPT
        !.body = [error |-> "Usage limit exceeded",
                  message |-> usageLimits.reason,
                  resetTime |-> usageLimits.resetTime]]

\* the request arrives; auth() resolves the session
ChatArrive(r) ==
    /\ req[r].pc = "idle"
    /\ \E userId \in Users \cup {NoUser} :
        req' = [req EXCEPT ![r] = Request("auth", userId, 0)]
    /\ UNCHANGED <<usage_events, today, dispatched, lastCheck, tracked, lastTrack>>
    /\ UNCHANGED <<schedVars, httpVars, optVars>>

\* POST /chat letting a denied request through to the model
ChatCheck_DegradesDenial(r) ==
    /\ req[r].pc = "auth"
    /\ IF req[r].userId = NoUser
       THEN /\ req' = [req EXCEPT ![r] = Request("done", NoUser, 401)]
            /\ UNCHANGED lastCheck
       ELSE LET usageLimits == canMakeRequest(usage_events, "api_call", 1,
                                              req[r].userId, today, "none")
            IN  /\ lastCheck' = Check("api_call", 1, req[r].userId, "none")
                /\ req' = [req EXCEPT ![r] =
                            IF ~usageLimits.allowed
                            THEN Request("dispatch", req[r].userId, 0)
                            ELSE Request("dispatch", req[r].userId, 0)]
    /\ UNCHANGED <<usage_events, today, dispatched, tracked, lastTrack>>
    /\ UNCHANGED <<schedVars, httpVars, optVars>>

\* lines 27-42: 401 without a session, else the quota check and 429 on denial
ChatCheck(r) ==
    /\ req[r].pc = "auth"
    /\ IF req[r].userId = NoUser
       THEN /\ req' = [req EXCEPT ![r] = Request("done", NoUser, 401)]
            /\ UNCHANGED lastCheck
       ELSE LET usageLimits == canMakeRequest(usage_events, "api_call", 1,
                                              req[r].userId, today, "none")
            IN  /\ lastCheck' = Check("api_call", 1, req[r].userId, "none")
                /\ req' = [req EXCEPT ![r] =
                            IF ~usageLimits.allowed
                            THEN LimitExceeded(req[r].userId, usageLimits)
                            ELSE Request("dispatch", req[r].userId, 0)]
    /\ UNCHANGED <<usage_events, today, dispatched, tracked, lastTrack>>
    /\ UNCHANGED <<schedVars, httpVars, optVars>>

\* the ways the provider call of streamText can fail
ProviderFailures == {"rate_limit", "context_limit", "unavailable", "auth_error"}

\* lines 44-89: the model is called once, track is started and not awaited,
\* the stream is returned.  A provider failure reaches the caller, in the
\* stream of the 200 response or, thrown inside the try, as the 500 of the
\* catch (lines 90-93); no other model is tried.
ChatDispatchUnder(r, outcomes) ==
    /\ req[r].pc = "dispatch"
    /\ dispatched' = dispatched (+)
           SetToBag({[userId |-> req[r].userId, year |-> today.year,
                      month |-> today.month]})
    /\ \E outcome \in outcomes, thrown \in BOOLEAN :
        /\ outcome = "none" => ~thrown
        /\ req' = [req EXCEPT ![r] =
                    [Request(IF thrown THEN "done" ELSE "track",
                             req[r].userId,
                             IF thrown THEN 500 ELSE 200)
                        EXCEPT !.modelsTried = 1, !.surfaced = outcome]]
    /\ UNCHANGED <<usage_events, today, lastCheck, tracked, lastTrack>>
    /\ UNCHANGED <<schedVars, httpVars, optVars>>

\* the provider call when the provider answers
ChatDispatch(r) == ChatDispatchUnder(r, {"none"})

\* lines 75-87: the track call started by the request settles; a rejection
\* would be logged by the .catch, the response is already returned
ChatTrackUnder(r, faults) ==
    /\ req[r].pc = "track"
    /\ \E fault \in faults :
        LET outcome == trackOutcome(usage_events, req[r].userId, "api_call",
                                    1, today, fault)
        IN  /\ usage_events' = outcome.events
            /\ lastTrack' = TrackRecord(outcome)
    /\ req' = [req EXCEPT ![r] = [req[r] EXCEPT !.pc = "done"]]
    /\ UNCHANGED <<today, dispatched, lastCheck, tracked>>
    /\ UNCHANGED <<schedVars, httpVars, optVars>>

\* the track call when every query succeeds
ChatTrack(r) == ChatTrackUnder(r, {"none"})

(***************************************************************************)
(* Direct calls of the UsageTracker and the passing of a month.            *)
(***************************************************************************)
QuantityInputs == {1, 2}

\* events that take a kind from its limit to just over it, or near it
TrackInputs ==
    {<<"api_call", 1>>, <<"token_usage", 1000000>>, <<"token_usage", 1000001>>,
     <<"file_upload", 1024>>, <<"attachment_processing", 1025>>,
     <<"tool_execution", 99>>, <<"tool_execution", 101>>}

\* a canMakeRequest call with a quantity and a fault of the given sets
CanMakeRequestUnder(quantities, faults) ==
    /\ \E type \in EventTypes, quantity \in quantities, userId \in Users,
          fault \in faults :
        lastCheck' = Check(type, quantity, userId, fault)
    /\ UNCHANGED <<usage_events, today, req, dispatched, tracked, lastTrack>>
    /\ UNCHANGED <<schedVars, httpVars, optVars>>

CanMakeRequestCall == CanMakeRequestUnder(QuantityInputs, {"none"})

TrackCall ==
    /\ tracked < MaxTracks
    /\ \E event \in TrackInputs, userId \in Users :
        LET outcome == trackOutcome(usage_events, userId, event[1], event[2],
                                    today, "none")
        IN  /\ usage_events' = outcome.events
            /\ lastTrack' = TrackRecord(outcome)
    /\ tracked' = tracked + 1
    /\ UNCHANGED <<today, req, dispatched, lastCheck>>
    /\ UNCHANGED <<schedVars, httpVars, optVars>>

AdvanceMonth ==
    /\ (today.year * 12 + today.month)
           < (StartDate.year * 12 + StartDate.month) + MaxMonthSteps
    /\ today' = [year |-> DateOf(today.year, today.month + 1, 1).year,
                 month |-> DateOf(today.year, today.month + 1, 1).month]
    /\ UNCHANGED <<usage_events, req, dispatched, lastCheck, tracked, lastTrack>>
    /\ UNCHANGED <<schedVars, httpVars, optVars>>

(***************************************************************************)
(* The model catalog (lib/model-providers.ts).  A name is the sequence of  *)
(* its characters, so that name.includes(...) is a search in it.  Costs    *)
(* are in thousandths of a cent per 1k tokens (the source has cents, with  *)
(* fractions).  The description and maxOutputTokens, which nothing reads,  *)
(* are left out; no entry of the catalog is deprecated.                    *)
(***************************************************************************)
ModelInfo(id, name, provider, category, contextLength, input, output, features, tier) ==
    [id |-> id, name |-> name, provider |-> provider, category |-> category,
     contextLength |-> contextLength,
     costPer1kTokens |-> [input |-> input, output |-> output],
     features |-> features, deprecated |-> FALSE, tier |-> tier]

AVAILABLE_MODELS ==
    <<ModelInfo("gpt-4o",
                 <<"G", "P", "T", "-", "4", "o">>,
                 "openai", "chat", 128000, 2500, 10000,
                 {"vision", "json", "function-calling", "streaming"}, "professional"),
       ModelInfo("gpt-4o-mini",
                 <<"G", "P", "T", "-", "4", "o", " ", "M", "i", "n", "i">>,
                 "openai", "chat", 128000, 150, 600,
                 {"vision", "json", "function-calling", "streaming"}, "starter"),
       ModelInfo("gpt-3.5-turbo",
                 <<"G", "P", "T", "-", "3", ".", "5", " ", "T", "u", "r", "b", "o">>,
                 "openai", "chat", 16385, 500, 1500,
                 {"json", "function-calling", "streaming"}, "starter"),
       ModelInfo("o1-preview",
                 <<"G", "P", "T", "-", "o", "1", " ", "P", "r", "e", "v", "i", "e", "w">>,
                 "openai", "reasoning", 128000, 15000, 60000,
                 {"reasoning", "streaming"}, "enterprise"),
       ModelInfo("claude-3-5-sonnet-20241022",
                 <<"C", "l", "a", "u", "d", "e", " ", "3", ".", "5", " ", "S", "o", "n", "n", "e", "t">>,
                 "anthropic", "chat", 200000, 3000, 15000,
                 {"vision", "json", "function-calling", "streaming"}, "professional"),
       ModelInfo("claude-3-haiku-20240307",
                 <<"C", "l", "a", "u", "d", "e", " ", "3", " ", "H", "a", "i", "k", "u">>,
                 "anthropic", "chat", 200000, 250, 1250,
                 {"json", "streaming"}, "starter"),
       ModelInfo("gemini-1.5-pro",
                 <<"G", "e", "m", "i", "n", "i", " ", "1", ".", "5", " ", "P", "r", "o">>,
                 "google", "chat", 2000000, 1250, 5000,
                 {"vision", "json", "function-calling", "streaming"}, "professional"),
       ModelInfo("gemini-1.5-flash",
                 <<"G", "e", "m", "i", "n", "i", " ", "1", ".", "5", " ", "F", "l", "a", "s", "h">>,
                 "google", "chat", 1000000, 75, 300,
                 {"vision", "json", "function-calling", "streaming"}, "starter"),
       ModelInfo("anthropic/claude-3-opus:beta",
                 <<"C", "l", "a", "u", "d", "e", " ", "3", " ", "O", "p", "u", "s", " ", "(", "O", "p", "e", "n", "R", "o", "u", "t", "e", "r", ")">>,
                 "openrouter", "reasoning", 200000, 15000, 75000,
                 {"vision", "json", "reasoning", "streaming"}, "enterprise"),
       ModelInfo("meta-llama/llama-3.2-90b-vision-instruct",
                 <<"L", "l", "a", "m", "a", " ", "3", ".", "2", " ", "9", "0", "B", " ", "V", "i", "s", "i", "o", "n">>,
                 "openrouter", "vision", 131072, 900, 900,
                 {"vision", "json", "streaming"}, "starter")>>

\* the values a lookup yields when it finds nothing, and a thrown TypeError
Undefined == ModelInfo("undefined", <<>>, "", "", 0, 0, 0, {}, "")
Null == ModelInfo("null", <<>>, "", "", 0, 0, 0, {}, "")
TypeError == ModelInfo("TypeError", <<>>, "", "", 0, 0, 0, {}, "")

\* String.prototype.includes on character sequences
includes(text, part) ==
    \E i \in 0..(Len(text) - Len(part)) :
        SubSeq(text, i + 1, i + Len(part)) = part

\* Array.prototype.indexOf: the first position, from 0, or -1
indexOf(array, element) ==
    IF \E i \in 1..Len(array) : array[i] = element
    THEN (CHOOSE i \in 1..Len(array) :
            /\ array[i] = element
            /\ \A j \in 1..(i - 1) : array[j] # element) - 1
    ELSE -1

toLowerCase(text) ==
    LET upper == <<"A", "B", "C", "D", "E", "F", "G", "H", "I", "J", "K", "L",
                   "M", "N", "O", "P", "Q", "R", "S", "T", "U", "V", "W", "X",
                   "Y", "Z">>
        lower == <<"a", "b", "c", "d", "e", "f", "g", "h", "i", "j", "k", "l",
                   "m", "n", "o", "p", "q", "r", "s", "t", "u", "v", "w", "x",
                   "y", "z">>
    IN  [i \in 1..Len(text) |->
            IF indexOf(upper, text[i]) >= 0
            THEN lower[indexOf(upper, text[i]) + 1]
            ELSE text[i]]

\* array[0], and a || b on lookups
First(array) == IF Len(array) = 0 THEN Undefined ELSE array[1]
OrElse(a, b) == IF a # Undefined THEN a ELSE b

tierHierarchy == <<"free", "starter", "professional", "enterprise">>

\* getModelsForTier answering the models of exactly the tier
getModelsForTier_ExactTier(tier) ==
    SelectSeq(AVAILABLE_MODELS,
              LAMBDA model : model.tier = tier /\ ~model.deprecated)

\* getModelsForTier (model-providers.ts 230-238)
getModelsForTier(tier) ==
    SelectSeq(AVAILABLE_MODELS,
              LAMBDA model :
                /\ indexOf(tierHierarchy, model.tier)
                       <= indexOf(tierHierarchy, tier)
                /\ ~model.deprecated)

FindById(modelId) ==
    First(SelectSeq(AVAILABLE_MODELS, LAMBDA m : m.id = modelId))

(***************************************************************************)
(* The arithmetic of estimateConversationCost.  A JavaScript number is an  *)
(* IEEE 754 double: every division, product and sum is rounded to 53       *)
(* significant bits, to the nearest value and to the even one on a tie.    *)
(* A double is modelled as [m, e], the number m * 2^e, where m is a        *)
(* natural number written in binary with its least significant bit first   *)
(* (<<>> is zero).  Only non-negative numbers of ordinary magnitude occur. *)
(***************************************************************************)
\* bits * 2^exponent, plus a positive amount below 2^exponent when sticky,
\* rounded
RoundToDouble(bits, exponent, sticky) ==
    LET top == IF \E bit \in 1..Len(bits) : bits[bit] = 1
             THEN CHOOSE bit \in 1..Len(bits) :
                    /\ bits[bit] = 1
                    /\ \A other \in (bit + 1)..Len(bits) : bits[other] = 0
             ELSE 0
        precision == 53
        dropped == top - precision
        kept == SubSeq(bits, dropped + 1, top)
        up == /\ bits[dropped] = 1
              /\ \/ sticky
                 \/ \E bit \in 1..(dropped - 1) : bits[bit] = 1
                 \/ kept[1] = 1
        zero == IF \E bit \in 1..precision : kept[bit] = 0
                THEN CHOOSE bit \in 1..precision :
                        /\ kept[bit] = 0
                        /\ \A other \in 1..(bit - 1) : kept[other] = 1
                ELSE precision + 1
        successor == [bit \in 1..(IF zero > precision THEN zero ELSE precision)
                        |-> IF bit < zero THEN 0
                            ELSE IF bit = zero THEN 1 ELSE kept[bit]]
    IN  IF top = 0 THEN [m |-> <<>>, e |-> 0]
        ELSE IF top <= precision THEN [m |-> SubSeq(bits, 1, top), e |-> exponent]
        ELSE [m |-> IF up THEN successor ELSE kept, e |-> exponent + dropped]

\* a natural number in binary as its digits of 13 bits, least first
Digits(mantissa) ==
    LET width == 13
        RECURSIVE digitOf(_)
        digitOf(digit) ==
            IF digit = <<>> THEN 0 ELSE Head(digit) + 2 * digitOf(Tail(digit))
    IN  [at \in 1..((Len(mantissa) + width - 1) \div width) |->
            digitOf(SubSeq(mantissa, width * (at - 1) + 1,
                           IF width * at < Len(mantissa)
                           THEN width * at ELSE Len(mantissa)))]

\* the double nearest to numerator / denominator, for natural numbers with
\* 0 < denominator <= 1000: the value of a decimal literal, and the result
\* of dividing two whole numbers.  The quotient is developed to 78 bits
\* behind the point by long division in digits of 13 bits.
Quotient(numerator, denominator) ==
    LET width == 13
        base == 2 ^ width
        fractionDigits == 6
        \* the digits of the fraction, least first, and the remainder left
        \* behind them
        RECURSIVE fraction(_, _)
        fraction(left, togo) ==
            IF togo = 0 THEN <<>>
            ELSE fraction((left * base) % denominator, togo - 1)
                 \o <<(left * base) \div denominator>>
        RECURSIVE remainder(_, _)
        remainder(left, togo) ==
            IF togo = 0 THEN left
            ELSE remainder((left * base) % denominator, togo - 1)
        behind == fraction(numerator % denominator, fractionDigits)
        whole == numerator \div denominator
    IN  RoundToDouble(
            [bit \in 1..(width * fractionDigits) |->
                (behind[(bit - 1) \div width + 1]
                    \div 2 ^ ((bit - 1) % width)) % 2]
            \o [bit \in 1..31 |-> (whole \div 2 ^ (bit - 1)) % 2],
            0 - width * fractionDigits,
            remainder(numerator % denominator, fractionDigits) # 0)

\* x * y: the mantissas are multiplied digit by digit
Times(x, y) ==
    LET width == 13
        base == 2 ^ width
        multiplicand == Digits(x.m)
        multiplier == Digits(y.m)
        RECURSIVE column(_, _)
        column(place, from) ==
            IF from > Len(multiplicand) THEN 0
            ELSE (IF place - from + 1 \in 1..Len(multiplier)
                  THEN multiplicand[from] * multiplier[place - from + 1]
                  ELSE 0)
                 + column(place, from + 1)
        RECURSIVE carried(_, _)
        carried(place, carry) ==
            IF place > Len(multiplicand) + Len(multiplier) - 1
            THEN [bit \in 1..(2 * width) |-> (carry \div 2 ^ (bit - 1)) % 2]
            ELSE [bit \in 1..width |->
                    (((column(place, 1) + carry) % base)
                        \div 2 ^ (bit - 1)) % 2]
                 \o carried(place + 1, (column(place, 1) + carry) \div base)
    IN  IF x.m = <<>> \/ y.m = <<>> THEN [m |-> <<>>, e |-> 0]
        ELSE RoundToDouble(carried(1, 0), x.e + y.e, FALSE)

\* x + y: the mantissas, brought to the lesser exponent, are added digit by
\* digit
Plus(x, y) ==
    LET width == 13
        base == 2 ^ width
        least == IF x.e < y.e THEN x.e ELSE y.e
        augend == Digits([bit \in 1..(x.e - least) |-> 0] \o x.m)
        addend == Digits([bit \in 1..(y.e - least) |-> 0] \o y.m)
        RECURSIVE sumFrom(_, _)
        sumFrom(place, carry) ==
            IF place > Len(augend) /\ place > Len(addend)
            THEN <<carry>>
            ELSE [bit \in 1..width |->
                    ((((IF place <= Len(augend) THEN augend[place] ELSE 0)
                       + (IF place <= Len(addend) THEN addend[place] ELSE 0)
                       + carry) % base) \div 2 ^ (bit - 1)) % 2]
                 \o sumFrom(place + 1,
                        ((IF place <= Len(augend) THEN augend[place] ELSE 0)
                         + (IF place <= Len(addend) THEN addend[place] ELSE 0)
                         + carry) \div base)
    IN  IF x.m = <<>> THEN y
        ELSE IF y.m = <<>> THEN x
        ELSE RoundToDouble(sumFrom(1, 0), least, FALSE)

\* Math.ceil(x), as a whole number, for 0 <= x < 2^26 (where the exponent
\* of a double other than zero is negative)
Ceil(x) ==
    LET whole == Digits(SubSeq(x.m, 1 - x.e, Len(x.m)) \o <<0>>)
    IN  IF x.m = <<>> THEN 0
        ELSE whole[1] + (IF Len(whole) > 1 THEN whole[2] * 2 ^ 13 ELSE 0)
             + (IF \E bit \in 1..Len(x.m) : bit <= 0 - x.e /\ x.m[bit] = 1
                THEN 1 ELSE 0)

\* estimateConversationCost (model-providers.ts 299-311), in cents.  The
\* costs of the catalog being thousandths of a cent per 1k tokens here, the
\* cost the source writes as a decimal literal is the double nearest to
\* cost / 1000.
estimateConversationCost(modelId, inputTokens, outputTokens) ==
    LET model == FindById(modelId)
        inputCost == Times(Quotient(inputTokens, 1000),
                           Quotient(model.costPer1kTokens.input, 1000))
        outputCost == Times(Quotient(outputTokens, 1000),
                            Quotient(model.costPer1kTokens.output, 1000))
    IN  IF model = Undefined THEN 0
        ELSE Ceil(Plus(inputCost, outputCost))

(***************************************************************************)
(* ModelOptimizer (lib/model-optimizer): the private helpers.              *)
(***************************************************************************)
Compatible(models, requiredFeatures) ==
    SelectSeq(models, LAMBDA m : requiredFeatures \subseteq m.features)

TotalCost(m) == m.costPer1kTokens.input + m.costPer1kTokens.output

\* the reduce of findCheapestModel from element k on
RECURSIVE reduceCheapest(_, _, _)
reduceCheapest(compatible, k, cheapest) ==
    IF k > Len(compatible) THEN cheapest
    ELSE reduceCheapest(compatible, k + 1,
                        IF TotalCost(compatible[k]) < TotalCost(cheapest)
                        THEN compatible[k] ELSE cheapest)

\* findCheapestModel answering the most expensive compatible model
findCheapestModel_MostExpensive(models, requiredFeatures) ==
    LET compatible == Compatible(models, requiredFeatures)
    IN  IF Len(compatible) = 0 THEN TypeError
        ELSE CHOOSE m \in {compatible[i] : i \in 1..Len(compatible)} :
                \A i \in 1..Len(compatible) :
                    TotalCost(m) >= TotalCost(compatible[i])

\* findCheapestModel (197-207); reduce throws on an empty array
findCheapestModel(models, requiredFeatures) ==
    LET compatible == Compatible(models, requiredFeatures)
    IN  IF Len(compatible) = 0 THEN TypeError
        ELSE reduceCheapest(compatible, 2, compatible[1])

\* findFastestModel (209-218)
findFastestModel(models, requiredFeatures) ==
    LET compatible == Compatible(models, requiredFeatures)
    IN  OrElse(First(SelectSeq(compatible,
                    LAMBDA m : \/ includes(m.name, <<"m", "i", "n", "i">>)
                               \/ includes(m.name,
                                           <<"f", "l", "a", "s", "h">>))),
        OrElse(First(SelectSeq(compatible, LAMBDA m : m.provider = "openai")),
               First(compatible)))

\* findHighestQualityModel (220-230)
findHighestQualityModel(models, requiredFeatures) ==
    LET compatible == Compatible(models, requiredFeatures)
    IN  OrElse(First(SelectSeq(compatible,
                               LAMBDA m : m.category = "reasoning")),
        OrElse(First(SelectSeq(compatible,
                    LAMBDA m : \/ includes(m.name, <<"O", "p", "u", "s">>)
                               \/ includes(m.name,
                                    <<"G", "P", "T", "-", "4", "o">>))),
        OrElse(First(SelectSeq(compatible, LAMBDA m : m.tier = "enterprise")),
               First(compatible))))

\* findBalancedModel (232-253)
findBalancedModel(models, requiredFeatures, inputLength) ==
    LET compatible == Compatible(models, requiredFeatures)
    IN  IF inputLength < 500
        THEN findCheapestModel(compatible, requiredFeatures)
        ELSE IF inputLength > 5000
        THEN findHighestQualityModel(compatible, requiredFeatures)
        ELSE OrElse(First(SelectSeq(compatible,
                        LAMBDA m :
                            /\ ~includes(m.name, <<"m", "i", "n", "i">>)
                            /\ ~includes(m.name, <<"O", "p", "u", "s">>)
                            /\ m.tier = "professional")),
                    First(compatible))

\* the comparator of the sort in generateFallbacks (261-270)
compareFallbacks(a, b, primary) ==
    IF a.provider # primary.provider /\ b.provider = primary.provider THEN -1
    ELSE IF a.provider = primary.provider /\ b.provider # primary.provider
    THEN 1
    ELSE TotalCost(a) - TotalCost(b)

\* Array.prototype.sort, which is stable: an element comes after those that
\* compare lower and after the earlier ones that compare equal
sortFallbacks(array, primary) ==
    LET rank(i) ==
            1 + Cardinality({j \in 1..Len(array) :
                    \/ compareFallbacks(array[j], array[i], primary) < 0
                    \/ /\ compareFallbacks(array[j], array[i], primary) = 0
                       /\ j < i})
    IN  [k \in 1..Len(array) |->
            array[CHOOSE i \in 1..Len(array) : rank(i) = k]]

\* generateFallbacks returning the primary among the fallbacks
generateFallbacks_WithPrimary(primary, available, requiredFeatures) ==
    LET fallbacks ==
            sortFallbacks(
                SelectSeq(available,
                          LAMBDA m : requiredFeatures \subseteq m.features),
                primary)
    IN  SubSeq(fallbacks, 1, IF Len(fallbacks) < 3 THEN Len(fallbacks) ELSE 3)

\* generateFallbacks ignoring the required features
generateFallbacks_AnyFeature(primary, available, requiredFeatures) ==
    LET fallbacks ==
            sortFallbacks(SelectSeq(available, LAMBDA m : m.id # primary.id),
                          primary)
    IN  SubSeq(fallbacks, 1, IF Len(fallbacks) < 3 THEN Len(fallbacks) ELSE 3)

\* generateFallbacks (255-273)
generateFallbacks(primary, available, requiredFeatures) ==
    LET fallbacks ==
            sortFallbacks(
                SelectSeq(available,
                          LAMBDA m : /\ m.id # primary.id
                                     /\ requiredFeatures \subseteq m.features),
                primary)
    IN  SubSeq(fallbacks, 1, IF Len(fallbacks) < 3 THEN Len(fallbacks) ELSE 3)

(***************************************************************************)
(* recommendForInput (38-97).  An input text is its beginning, as          *)
(* characters, and its length; what follows the beginning holds no         *)
(* letters.  The reasoning string of a recommendation is left out.         *)
(***************************************************************************)
InputText(head, length) == [head |-> head, length |-> length]

Optimizer(userTier, strategy, fallbackEnabled) ==
    [userTier |-> userTier, strategy |-> strategy,
     fallbackEnabled |-> fallbackEnabled]

Recommendation(primary, fallbacks, estimatedCost) ==
    [thrown |-> FALSE, primary |-> primary, fallbacks |-> fallbacks,
     estimatedCost |-> estimatedCost]

\* the call ended in a TypeError
Thrown ==
    [thrown |-> TRUE, primary |-> Undefined, fallbacks |-> <<>>,
     estimatedCost |-> 0]

requiredFeaturesOf(inputText, hasAttachments) ==
    (IF hasAttachments THEN {"vision"} ELSE {})
    \cup
    (IF \/ includes(toLowerCase(inputText.head),
                    <<"a", "n", "a", "l", "y", "z", "e">>)
        \/ includes(toLowerCase(inputText.head), <<"t", "h", "i", "n", "k">>)
     THEN {"reasoning"} ELSE {})

recommendForInput(self, inputText, hasAttachments, expectedOutputLength) ==
    LET availableModels == getModelsForTier(self.userTier)
        inputLength == inputText.length
        estimatedTokens == (inputLength + 3) \div 4
        requiredFeatures == requiredFeaturesOf(inputText, hasAttachments)
        primaryModel ==
            IF self.strategy = "cost"
            THEN findCheapestModel(availableModels, requiredFeatures)
            ELSE IF self.strategy = "speed"
            THEN findFastestModel(availableModels, requiredFeatures)
            ELSE IF self.strategy = "quality"
            THEN findHighestQualityModel(availableModels, requiredFeatures)
            ELSE findBalancedModel(availableModels, requiredFeatures,
                                   inputLength)
        outputTokens == IF expectedOutputLength = "short" THEN 100
                        ELSE IF expectedOutputLength = "medium" THEN 500
                        ELSE 1500
    IN  \* the reduce of an empty array throws; so does reading the id of an
        \* undefined primary, in generateFallbacks or at the cost estimate
        IF primaryModel \in {TypeError, Undefined} THEN Thrown
        ELSE Recommendation(
                primaryModel,
                generateFallbacks(primaryModel, availableModels,
                                  requiredFeatures),
                estimateConversationCost(primaryModel.id, estimatedTokens,
                                         outputTokens))

(***************************************************************************)
(* handleModelFailure (102-132) and its helpers (275-286).  The result is  *)
(* the model returned and the fallback list of the recommendation as the   *)
(* call leaves it: findLargerContextModel sorts that array in place.       *)
(***************************************************************************)
findAlternativeProvider(failedModel, fallbacks) ==
    LET failedProvider == FindById(failedModel).provider
    IN  First(SelectSeq(fallbacks, LAMBDA m : m.provider # failedProvider))

sortByContext(array) ==
    LET rank(i) ==
            1 + Cardinality({j \in 1..Len(array) :
                    \/ array[j].contextLength > array[i].contextLength
                    \/ /\ array[j].contextLength = array[i].contextLength
                       /\ j < i})
    IN  [k \in 1..Len(array) |->
            array[CHOOSE i \in 1..Len(array) : rank(i) = k]]

findLargerContextModel(fallbacks) == First(sortByContext(fallbacks))

findFreeAlternative(fallbacks) ==
    First(SelectSeq(fallbacks, LAMBDA m : m.tier \in {"free", "starter"}))

OrNull(a) == IF a = Undefined THEN Null ELSE a

Failover(result, fallbacks) == [result |-> result, fallbacks |-> fallbacks]

\* handleModelFailure answering the first fallback whatever the error
handleModelFailure_FirstFallback(self, failedModel, errorType, originalRecommendation) ==
    LET fallbacks == originalRecommendation.fallbacks
    IN  IF self.fallbackEnabled # "true" THEN Failover(Null, fallbacks)
        ELSE Failover(OrNull(First(fallbacks)), fallbacks)

handleModelFailure(self, failedModel, errorType, originalRecommendation) ==
    LET fallbacks == originalRecommendation.fallbacks
    IN  IF self.fallbackEnabled # "true" THEN Failover(Null, fallbacks)
        ELSE IF errorType = "rate_limit"
        THEN Failover(OrNull(findAlternativeProvider(failedModel, fallbacks)),
                      fallbacks)
        ELSE IF errorType = "context_limit"
        THEN Failover(OrNull(findLargerContextModel(fallbacks)),
                      sortByContext(fallbacks))
        ELSE IF errorType = "unavailable"
        THEN Failover(OrNull(First(fallbacks)), fallbacks)
        ELSE IF errorType = "auth_error"
        THEN Failover(OrNull(findFreeAlternative(fallbacks)), fallbacks)
        ELSE Failover(OrNull(First(fallbacks)), fallbacks)

(***************************************************************************)
(* The ModelOptimizer calls as actions.  An instance is constructed with   *)
(* a tier and a strategy; recommendForInput is called once on it and the   *)
(* caller then reports failures against the recommendation it got.         *)
(***************************************************************************)
\* fallbackEnabled is optional in OptimizationStrategy
Optimizers ==
    {Optimizer(tierHierarchy[t], strategy, flag) :
        t \in 1..Len(tierHierarchy),
        strategy \in {"cost", "speed", "quality", "balanced"},
        flag \in {"true", "false", "undefined"}}

\* texts with an analytic trigger word, in some case, and texts without
TriggerTexts ==
    {<<"A", "n", "a", "l", "y", "z", "e", " ", "t", "h", "i", "s", " ", "r", "e", "p", "o", "r", "t">>,
     <<"I", " ", "t", "h", "i", "n", "k", " ", "s", "o">>,
     <<"R", "e", "t", "h", "i", "n", "k", "i", "n", "g", " ", "t", "h", "e", " ", "c", "o", "d", "e">>}

PlainTexts ==
    {<<"H", "e", "l", "l", "o", " ", "t", "h", "e", "r", "e">>}

\* lengths on both sides of the 500 and 5000 thresholds of findBalancedModel
RecommendInputs ==
    {<<InputText(head, length), hasAttachments, expectedOutputLength>> :
        head \in TriggerTexts \cup PlainTexts,
        length \in {19, 499, 500, 5000, 5001},
        hasAttachments \in BOOLEAN,
        expectedOutputLength \in {"short", "medium", "long"}}

\* the inputs of the recommendations failures are reported against
FailoverInputs ==
    {<<InputText(head, 19), hasAttachments, "medium">> :
        head \in {<<"A", "n", "a", "l", "y", "z", "e", " ", "t", "h", "i", "s", " ", "r", "e", "p", "o", "r", "t">>,
                  <<"H", "e", "l", "l", "o", " ", "t", "h", "e", "r", "e">>},
        hasAttachments \in BOOLEAN}

Recommend(inputText, hasAttachments, expectedOutputLength, returned) ==
    [called |-> TRUE, inputText |-> inputText,
     hasAttachments |-> hasAttachments,
     expectedOutputLength |-> expectedOutputLength, returned |-> returned]

NoRecommendation ==
    [thrown |-> FALSE, primary |-> Undefined, fallbacks |-> <<>>,
     estimatedCost |-> 0]

NoRecommend ==
    [called |-> FALSE, inputText |-> InputText(<<>>, 0),
     hasAttachments |-> FALSE, expectedOutputLength |-> "medium",
     returned |-> NoRecommendation]

NoFailover ==
    [failedModel |-> "", errorType |-> "", given |-> <<>>, result |-> Null]

RecommendFrom(inputs) ==
    /\ ~lastRecommend.called
    /\ \E input \in inputs :
        LET returned == recommendForInput(optimizer, input[1], input[2],
                                          input[3])
        IN  /\ recommendation' = returned
            /\ lastRecommend' = Recommend(input[1], input[2], input[3],
                                          returned)
    /\ UNCHANGED <<optimizer, failover, failures, lastEstimate>>
    /\ UNCHANGED <<schedVars, usageVars, httpVars>>

HandleModelFailureCall ==
    /\ failures < MaxFailures
    /\ lastRecommend.called
    /\ ~recommendation.thrown
    \* the model reported as failed: the primary, the first fallback after a
    \* switch to it, or an identifier the catalog does not hold
    /\ \E failedModel \in
            {recommendation.primary.id, "unknown-model"}
            \cup {recommendation.fallbacks[i].id :
                    i \in 1..Len(recommendation.fallbacks) \cap {1}},
          errorType \in ProviderFailures \cup {"timeout"} :
        LET outcome == handleModelFailure(optimizer, failedModel, errorType,
                                          recommendation)
        IN  /\ failover' = [failedModel |-> failedModel,
                            errorType |-> errorType,
                            given |-> recommendation.fallbacks,
                            result |-> outcome.result]
            /\ recommendation' =
                   [recommendation EXCEPT !.fallbacks = outcome.fallbacks]
    /\ failures' = failures + 1
    /\ UNCHANGED <<optimizer, lastRecommend, lastEstimate>>
    /\ UNCHANGED <<schedVars, usageVars, httpVars>>

\* estimateConversationCost called with a model of the catalog or an
\* identifier it does not hold; the token counts include whole thousands
\* and counts whose exact cost is a whole number of cents
EstimateConversationCostCall ==
    /\ ~lastEstimate.called
    /\ \E modelId \in {AVAILABLE_MODELS[i].id :
                            i \in 1..Len(AVAILABLE_MODELS)}
                      \cup {"unknown-model"},
          inputTokens \in {0, 50, 1000, 16600},
          outputTokens \in {0, 280, 390, 500, 1500} :
        lastEstimate' =
            [called |-> TRUE, modelId |-> modelId,
             inputTokens |-> inputTokens, outputTokens |-> outputTokens,
             returned |-> estimateConversationCost(modelId, inputTokens,
                                                   outputTokens)]
    /\ UNCHANGED <<optimizer, recommendation, lastRecommend, failover,
                   failures>>
    /\ UNCHANGED <<schedVars, usageVars, httpVars>>

(***************************************************************************)
(* PersonaManager (lib/custom-personas.ts).  A row keeps the columns the   *)
(* statements read or assign: user_id, is_active, is_default.  A deleted   *)
(* row leaves a gap at its id.                                             *)
(***************************************************************************)
AIPersona(userId, isActive, isDefault) ==
    [userId |-> userId, isActive |-> isActive, isDefault |-> isDefault]

NoPersona == AIPersona(NoUser, FALSE, FALSE)

\* the two UPDATEs of setDefaultPersona
setDefaultPersona(table, userId, personaId) ==
    [i \in 1..Len(table) |->
        IF table[i].userId # userId \/ userId = NoUser THEN table[i]
        ELSE IF i # personaId THEN [table[i] EXCEPT !.isDefault = FALSE]
        ELSE [table[i] EXCEPT !.isDefault = TRUE, !.isActive = TRUE]]

\* the two UPDATEs of activatePersona
activatePersona(table, userId, personaId) ==
    [i \in 1..Len(table) |->
        IF table[i].userId # userId \/ userId = NoUser THEN table[i]
        ELSE [table[i] EXCEPT !.isActive = (i = personaId)]]

createPersona(table, userId, personaData) ==
    LET inserted == Append(table, AIPersona(userId, personaData.isActive,
                                            personaData.isDefault))
    IN  IF personaData.isDefault
        THEN setDefaultPersona(inserted, userId, Len(inserted))
        ELSE inserted

\* an update carries a column as a set: empty when the field is undefined
updatePersona(table, personaId, userId, updates) ==
    LET updated ==
            [i \in 1..Len(table) |->
                IF i = personaId /\ table[i].userId = userId
                THEN AIPersona(userId,
                        IF updates.isActive = {} THEN table[i].isActive
                        ELSE TRUE \in updates.isActive,
                        IF updates.isDefault = {} THEN table[i].isDefault
                        ELSE TRUE \in updates.isDefault)
                ELSE table[i]]
    IN  IF updates.isDefault = {TRUE}
        THEN setDefaultPersona(updated, userId, personaId)
        ELSE updated

deletePersona(table, personaId, userId) ==
    [i \in 1..Len(table) |->
        IF i = personaId /\ table[i].userId = userId THEN NoPersona
        ELSE table[i]]

(***************************************************************************)
(* The proactive_suggestions table and the statements of the suggestions   *)
(* routes.  A row keeps user_id, shown and dismissed.                      *)
(***************************************************************************)
ProactiveSuggestion(userId, shown, dismissed) ==
    [userId |-> userId, shown |-> shown, dismissed |-> dismissed]

\* the UPDATE of interact clearing the shown flag
updateSuggestion_InteractUnshows(table, id, userId, action) ==
    [i \in 1..Len(table) |->
        IF i # id \/ table[i].userId # userId THEN table[i]
        ELSE IF action = "mark_shown" THEN [table[i] EXCEPT !.shown = TRUE]
        ELSE IF action \in {"dismiss", "complete"}
        THEN [table[i] EXCEPT !.dismissed = TRUE]
        ELSE [table[i] EXCEPT !.shown = FALSE]]

\* the UPDATE of PATCH /suggestions/{id} for an action
updateSuggestion(table, id, userId, action) ==
    [i \in 1..Len(table) |->
        IF i # id \/ table[i].userId # userId THEN table[i]
        ELSE IF action = "mark_shown" THEN [table[i] EXCEPT !.shown = TRUE]
        ELSE IF action \in {"dismiss", "complete"}
        THEN [table[i] EXCEPT !.dismissed = TRUE]
        ELSE table[i]]

(***************************************************************************)
(* The HTTP endpoints of tasks, personas and suggestions.  Each handler    *)
(* is one action; http records the session it ran under, the status it     *)
(* answered and the number of persistence statements it issued (the        *)
(* lookups of generateSuggestions count as one).                           *)
(***************************************************************************)
Sessions == Users \cup {NoUser}

Exchange(route, session, status, queries) ==
    [route |-> route, session |-> session, status |-> status,
     queries |-> queries, fault |-> "none", rows |-> {}]

\* a handler that looks the caller up in a table before refusing
Unauthorized_AfterLookup(route) ==
    /\ http' = Exchange(route, NoUser, 401, 1)
    /\ httpCalls' = httpCalls + 1
    /\ UNCHANGED <<ai_personas, proactive_suggestions>>
    /\ UNCHANGED <<schedVars, usageVars, optVars>>

\* if (!userId) return new Response('Unauthorized', { status: 401 })
Unauthorized(route) ==
    /\ http' = Exchange(route, NoUser, 401, 0)
    /\ httpCalls' = httpCalls + 1
    /\ UNCHANGED <<ai_personas, proactive_suggestions>>
    /\ UNCHANGED <<schedVars, usageVars, optVars>>

TasksGet ==
    /\ httpCalls < MaxHttpCalls
    /\ \E session \in Sessions, type \in {"pending", "upcoming"} :
        IF session = NoUser THEN Unauthorized("GET /tasks")
        ELSE /\ http' = Exchange("GET /tasks", session, 200, 1)
             /\ httpCalls' = httpCalls + 1
             /\ UNCHANGED <<ai_personas, proactive_suggestions>>
             /\ UNCHANGED <<schedVars, usageVars, optVars>>

\* POST /tasks (tasks/route.ts 39-60); the database fails once `inserted`
\* INSERTs of the call have succeeded, if the call issues more than that
TasksPostUnder(inputs, inserts) ==
    /\ httpCalls < MaxHttpCalls
    /\ \E session \in Sessions, taskData \in inputs, inserted \in inserts :
        IF session = NoUser THEN Unauthorized("POST /tasks")
        ELSE LET task == [taskData EXCEPT !.userId = session]
                 outcome == scheduleTaskOutcome(scheduled_tasks, task,
                                                inserted)
             IN  /\ Len(scheduleTask(scheduled_tasks, task)) <= MaxTasks
                 /\ scheduled_tasks' = outcome.table
                 /\ lastOp' = Op("scheduleTask", Len(scheduled_tasks) + 1,
                                 session, NoMinutes, task)
                 /\ calls' = calls + 1
                 /\ http' =
                        IF outcome.thrown
                        THEN [Exchange("POST /tasks", session, 500,
                                       inserted + 1)
                                EXCEPT !.fault = "insert"]
                        ELSE Exchange("POST /tasks", session, 200,
                                      Len(outcome.table)
                                        - Len(scheduled_tasks))
                 /\ httpCalls' = httpCalls + 1
                 /\ UNCHANGED <<now, sent, ai_personas, proactive_suggestions>>
                 /\ UNCHANGED <<usageVars, optVars>>

\* every INSERT succeeds: no call issues more than MaxTasks of them
TasksPost == TasksPostUnder(TaskInputs, {MaxTasks})

\* PATCH /tasks/{id} (tasks/[id]/route.ts 5-38)
TasksPatchUnder(faults) ==
    /\ httpCalls < MaxHttpCalls
    /\ \E session \in Sessions, id \in TaskIdInputs,
          action \in {"complete", "snooze", "cancel", "archive"},
          snoozeMinutes \in {NoMinutes, 0, 30}, fault \in faults :
        IF session = NoUser THEN Unauthorized("PATCH /tasks/{id}")
        ELSE IF action = "archive"
        THEN /\ http' = Exchange("PATCH /tasks/{id}", session, 400, 0)
             /\ httpCalls' = httpCalls + 1
             /\ UNCHANGED <<ai_personas, proactive_suggestions>>
             /\ UNCHANGED <<schedVars, usageVars, optVars>>
        ELSE LET minutes == IF snoozeMinutes = NoMinutes \/ snoozeMinutes = 0
                            THEN 60 ELSE snoozeMinutes
                 outcome == taskActionOutcome(scheduled_tasks, action, id,
                                              session, minutes, now, fault)
                 result == outcome.table
             IN  /\ Len(completeTask(scheduled_tasks, id, session, now))
                        <= MaxTasks
                 /\ scheduled_tasks' = result
                 /\ lastOp' =
                        Op(action \o "Task", id, session,
                           IF action = "snooze" THEN minutes ELSE NoMinutes,
                           NoTask)
                 /\ calls' = calls + 1
                 /\ http' =
                        [Exchange("PATCH /tasks/{id}", session,
                                  IF outcome.thrown THEN 500 ELSE 200,
                                  IF action = "complete" /\ fault # "update"
                                  THEN 2 + Len(completeTask(scheduled_tasks,
                                                   id, session, now))
                                         - Len(scheduled_tasks)
                                  ELSE 1)
                            EXCEPT !.fault = fault]
                 /\ httpCalls' = httpCalls + 1
                 /\ UNCHANGED <<now, sent, ai_personas, proactive_suggestions>>
                 /\ UNCHANGED <<usageVars, optVars>>

TasksPatch == TasksPatchUnder({"none"})

PersonasGet ==
    /\ httpCalls < MaxHttpCalls
    /\ \E session \in Sessions, action \in {"templates", "active", "list"} :
        IF session = NoUser THEN Unauthorized("GET /personas")
        ELSE LET none == \A i \in 1..Len(ai_personas) :
                            ~(/\ ai_personas[i].userId = session
                              /\ ai_personas[i].isActive)
                 createDefault == action = "active" /\ none
             IN  /\ ai_personas' =
                        IF createDefault
                        THEN createPersona(ai_personas, session,
                                           [isActive |-> TRUE,
                                            isDefault |-> TRUE])
                        ELSE ai_personas
                 /\ http' = Exchange("GET /personas", session, 200,
                                     IF action = "templates" THEN 0
                                     ELSE IF createDefault THEN 5 ELSE 1)
                 /\ httpCalls' = httpCalls + 1
                 /\ UNCHANGED proactive_suggestions
                 /\ UNCHANGED <<schedVars, usageVars, optVars>>

PersonasPost ==
    /\ httpCalls < MaxHttpCalls
    /\ \E session \in Sessions,
          action \in {"from-template", "from-unknown-template", "custom"},
          personaData \in [isActive : BOOLEAN, isDefault : BOOLEAN] :
        IF session = NoUser THEN Unauthorized("POST /personas")
        ELSE IF action = "from-unknown-template"
        THEN /\ http' = Exchange("POST /personas", session, 500, 0)
             /\ httpCalls' = httpCalls + 1
             /\ UNCHANGED <<ai_personas, proactive_suggestions>>
             /\ UNCHANGED <<schedVars, usageVars, optVars>>
        ELSE LET data == IF action = "from-template"
                         THEN [isActive |-> TRUE, isDefault |-> FALSE]
                         ELSE personaData
             IN  /\ ai_personas' = createPersona(ai_personas, session, data)
                 /\ http' = Exchange("POST /personas", session, 200,
                                     IF data.isDefault THEN 3 ELSE 1)
                 /\ httpCalls' = httpCalls + 1
                 /\ UNCHANGED proactive_suggestions
                 /\ UNCHANGED <<schedVars, usageVars, optVars>>

PersonasPatch ==
    /\ httpCalls < MaxHttpCalls
    /\ \E session \in Sessions, id \in 1..MaxPersonaIdArg,
          action \in {"activate", "set-default", "update"},
          updates \in [isActive : {{}, {TRUE}, {FALSE}},
                       isDefault : {{}, {TRUE}}] :
        IF session = NoUser THEN Unauthorized("PATCH /personas/{id}")
        ELSE /\ ai_personas' =
                    IF action = "activate"
                    THEN activatePersona(ai_personas, session, id)
                    ELSE IF action = "set-default"
                    THEN setDefaultPersona(ai_personas, session, id)
                    ELSE updatePersona(ai_personas, id, session, updates)
             /\ http' = Exchange("PATCH /personas/{id}", session, 200,
                                 IF action = "update"
                                 THEN (IF updates.isDefault = {TRUE}
                                       THEN 3 ELSE 1)
                                 ELSE 2)
             /\ httpCalls' = httpCalls + 1
             /\ UNCHANGED proactive_suggestions
             /\ UNCHANGED <<schedVars, usageVars, optVars>>

PersonasDelete ==
    /\ httpCalls < MaxHttpCalls
    /\ \E session \in Sessions, id \in 1..MaxPersonaIdArg :
        IF session = NoUser THEN Unauthorized("DELETE /personas/{id}")
        ELSE /\ ai_personas' = deletePersona(ai_personas, id, session)
             /\ http' = Exchange("DELETE /personas/{id}", session, 200, 1)
             /\ httpCalls' = httpCalls + 1
             /\ UNCHANGED proactive_suggestions
             /\ UNCHANGED <<schedVars, usageVars, optVars>>

\* GET /suggestions (suggestions/route.ts 6-55): the rows of the caller,
\* without include_shown=true those neither shown nor dismissed, and of
\* these the first five in an order of columns the table here does not
\* keep: any five.
SuggestionsGet ==
    /\ httpCalls < MaxHttpCalls
    /\ \E session \in Sessions, includeShown \in BOOLEAN :
        IF session = NoUser THEN Unauthorized("GET /suggestions")
        ELSE LET matching ==
                    {i \in 1..Len(proactive_suggestions) :
                        /\ proactive_suggestions[i].userId = session
                        /\ \/ includeShown
                           \/ /\ ~proactive_suggestions[i].shown
                              /\ ~proactive_suggestions[i].dismissed}
             IN
             /\ \E rows \in SUBSET matching :
                    /\ Cardinality(rows) = IF Cardinality(matching) < 5
                                           THEN Cardinality(matching) ELSE 5
                    /\ http' =
                        [Exchange(IF includeShown
                                  THEN "GET /suggestions?include_shown=true"
                                  ELSE "GET /suggestions", session, 200, 1)
                            EXCEPT !.rows = rows]
             /\ httpCalls' = httpCalls + 1
             /\ UNCHANGED <<ai_personas, proactive_suggestions>>
             /\ UNCHANGED <<schedVars, usageVars, optVars>>

\* POST /suggestions (suggestions/route.ts 57-103): of the suggestions
\* generated, those whose id is already in the table are left out by
\* ON CONFLICT (id) DO NOTHING and the others are appended.
SuggestionsPost ==
    /\ httpCalls < MaxHttpCalls
    /\ \E session \in Sessions, action \in {"generate", "refresh"},
          generated \in 0..MaxGenerated, conflicts \in 0..MaxGenerated :
        IF session = NoUser THEN Unauthorized("POST /suggestions")
        ELSE IF action # "generate"
        THEN /\ http' = Exchange("POST /suggestions", session, 400, 0)
             /\ httpCalls' = httpCalls + 1
             /\ UNCHANGED <<ai_personas, proactive_suggestions>>
             /\ UNCHANGED <<schedVars, usageVars, optVars>>
        ELSE /\ conflicts <= generated
             /\ conflicts > 0 => proactive_suggestions # <<>>
             /\ proactive_suggestions' =
                    proactive_suggestions \o
                    [k \in 1..(generated - conflicts) |->
                        ProactiveSuggestion(session, FALSE, FALSE)]
             /\ http' = Exchange("POST /suggestions", session, 200,
                                 1 + generated)
             /\ httpCalls' = httpCalls + 1
             /\ UNCHANGED ai_personas
             /\ UNCHANGED <<schedVars, usageVars, optVars>>

SuggestionsPatch ==
    /\ httpCalls < MaxHttpCalls
    /\ \E session \in Sessions, id \in 1..MaxSuggestionIdArg,
          action \in {"mark_shown", "dismiss", "interact", "complete", "hide"} :
        IF session = NoUser THEN Unauthorized("PATCH /suggestions/{id}")
        ELSE IF action = "hide"
        THEN /\ http' = Exchange("PATCH /suggestions/{id}", session, 400, 0)
             /\ httpCalls' = httpCalls + 1
             /\ UNCHANGED <<ai_personas, proactive_suggestions>>
             /\ UNCHANGED <<schedVars, usageVars, optVars>>
        ELSE /\ proactive_suggestions' =
                    updateSuggestion(proactive_suggestions, id, session,
                                     action)
             /\ http' = Exchange("PATCH /suggestions/{id}", session, 200, 1)
             /\ httpCalls' = httpCalls + 1
             /\ UNCHANGED ai_personas
             /\ UNCHANGED <<schedVars, usageVars, optVars>>

(***************************************************************************)
(* Initial states and specifications.                                      *)
(***************************************************************************)
NoOp ==
    [op |-> "", taskId |-> 0, userId |-> NoUser, minutes |-> NoMinutes,
     task |-> NoTask, before |-> 0, at |-> 0]

SchedIdle ==
    /\ scheduled_tasks = <<>>
    /\ now = 0
    /\ sent = <<>>
    /\ lastOp = NoOp
    /\ calls = 0

UsageIdle ==
    /\ usage_events = EmptyBag
    /\ today = StartDate
    /\ req = [r \in Requests |-> Request("idle", NoUser, 0)]
    /\ dispatched = EmptyBag
    /\ lastCheck = NoCheck
    /\ tracked = 0
    /\ lastTrack = NoTrack

\* api calls user u1 has already made this month: as many rows of quantity 1
\* in usage_events, and as many requests sent to a model
ApiCallSeeds == {9998, 9999, 10000}

HttpIdle ==
    /\ ai_personas = <<>>
    /\ proactive_suggestions = <<>>
    /\ http = Exchange("", NoUser, 0, 0)
    /\ httpCalls = 0

\* the exported instance: new ModelOptimizer() with its defaults
OptIdle ==
    /\ optimizer = Optimizer("starter", "balanced", "true")
    /\ recommendation = NoRecommendation
    /\ lastRecommend = NoRecommend
    /\ failover = NoFailover
    /\ failures = 0
    /\ lastEstimate = [called |-> FALSE, modelId |-> "", inputTokens |-> 0,
                       outputTokens |-> 0, returned |-> 0]

\* suggestions stored by earlier generate calls, none shown or dismissed
InitSuggestions ==
    /\ SchedIdle /\ UsageIdle /\ OptIdle
    /\ ai_personas = <<>>
    /\ \E n \in 0..MaxSuggestionIdArg :
        proactive_suggestions \in
            [1..n -> {ProactiveSuggestion(u, FALSE, FALSE) : u \in Users}]
    /\ http = Exchange("", NoUser, 0, 0)
    /\ httpCalls = 0

InitSched == SchedIdle /\ UsageIdle /\ HttpIdle /\ OptIdle

\* an instance constructed with any tier, strategy and fallback flag
InitOptimizer ==
    /\ SchedIdle
    /\ UsageIdle
    /\ HttpIdle
    /\ optimizer \in Optimizers
    /\ recommendation = NoRecommendation
    /\ lastRecommend = NoRecommend
    /\ failover = NoFailover
    /\ failures = 0
    /\ lastEstimate = [called |-> FALSE, modelId |-> "", inputTokens |-> 0,
                       outputTokens |-> 0, returned |-> 0]

InitUsage ==
    /\ SchedIdle
    /\ HttpIdle
    /\ OptIdle
    /\ today = StartDate
    /\ req = [r \in Requests |-> Request("idle", NoUser, 0)]
    /\ lastCheck = NoCheck
    /\ tracked = 0
    /\ lastTrack = NoTrack
    /\ \E seed \in ApiCallSeeds :
        /\ usage_events =
               [e \in {UsageEvent("u1", "api_call", 1, StartDate)} |-> seed]
        /\ dispatched =
               [e \in {[userId |-> "u1", year |-> StartDate.year,
                        month |-> StartDate.month]} |-> seed]

NextSched ==
    \/ ScheduleTaskCall
    \/ CompleteTaskCall
    \/ SnoozeTaskCall
    \/ CancelTaskCall
    \/ ProcessDueTasksCall
    \/ Tick

NextUsage ==
    \/ CanMakeRequestCall
    \/ TrackCall
    \/ AdvanceMonth

NextChat ==
    \/ \E r \in Requests : ChatArrive(r)
    \/ \E r \in Requests : ChatCheck(r)
    \/ \E r \in Requests : ChatDispatch(r)
    \/ \E r \in Requests : ChatTrack(r)
    \/ AdvanceMonth

NextHttp ==
    \/ TasksGet
    \/ TasksPost
    \/ TasksPatch
    \/ PersonasGet
    \/ PersonasPost
    \/ PersonasPatch
    \/ PersonasDelete
    \/ SuggestionsGet
    \/ SuggestionsPost
    \/ SuggestionsPatch

\* POST /chat and the handlers of the tables share no state: a behaviour
\* of EndpointSpec exercises the ones or the other
NextEndpoint ==
    \/ (\A r \in Requests : req[r].pc = "idle") /\ today = StartDate /\ NextHttp
    \/ httpCalls = 0 /\ NextChat

\* POST /chat with a provider call and a UsageTracker.track that may fail
NextFaultyChat ==
    \/ \E r \in Requests : ChatArrive(r)
    \/ \E r \in Requests : ChatCheck(r)
    \/ \E r \in Requests : ChatDispatchUnder(r, ProviderFailures \cup {"none"})
    \/ \E r \in Requests : ChatTrackUnder(r, TrackFaults)
    \/ AdvanceMonth

\* the tasks handlers over a database that may fail.  The tasks posted are
\* the meetings of TaskInputs and recurring tasks that expand to one, two,
\* three and ten rows; the database fails at one of the first INSERTs of
\* a call or not at all.
NextFaultyTasks ==
    \/ TasksPostUnder(
            {t \in TaskInputs \cup ExpansionInputs :
                \/ t.metadata.category = "meeting" /\ t.userId = "u1"
                \/ /\ t.scheduledFor = 0 /\ t.recurrencePattern = "daily"
                   /\ t.metadata.customRecurrence.given
                   /\ t.metadata.customRecurrence.unit = "days"
                   /\ t.metadata.customRecurrence.endDate = NoDate},
            0..MaxOccurrencesArg \cup {MaxTasks})
    \/ TasksPatchUnder({"none", "update", "lookup", "insert"})

\* UsageTracker within one month over a database whose SELECT fails, asked
\* for quantities below and above the limits of the starter tier
NextFaultyUsage ==
    \/ CanMakeRequestUnder({1, 101, 10001, 1000001}, {"query"})
    \/ TrackCall

NextFailover ==
    \/ RecommendFrom(FailoverInputs)
    \/ HandleModelFailureCall

SchedulerSpec == InitSched /\ [][NextSched]_vars
ExpansionSpec == InitSched /\ [][ExpandTaskCall]_vars
UsageSpec == InitUsage /\ [][NextUsage]_vars
ChatSpec == InitUsage /\ [][NextChat]_vars
FaultyChatSpec == InitUsage /\ [][NextFaultyChat]_vars
FaultyUsageSpec == InitUsage /\ [][NextFaultyUsage]_vars
EndpointSpec == InitSched /\ [][NextEndpoint]_vars
SuggestionsSpec ==
    InitSuggestions
    /\ [][SuggestionsGet \/ SuggestionsPost \/ SuggestionsPatch]_vars
FaultyTasksSpec == InitSched /\ [][NextFaultyTasks]_vars
OptimizerSpec == InitOptimizer /\ [][RecommendFrom(RecommendInputs)]_vars
FailoverSpec == InitOptimizer /\ [][NextFailover]_vars
CostSpec == InitSched /\ [][EstimateConversationCostCall]_vars

(***************************************************************************)
(* Properties of the TaskScheduler.  A step is a call of operation op when *)
(* it counts one more call and records op in lastOp.                       *)
(***************************************************************************)
IsCall(ops) == calls' = calls + 1 /\ lastOp'.op \in ops

InsertedRows == (lastOp.before + 1)..Len(scheduled_tasks)

\* C1: once a task's status is completed or cancelled, no completeTask,
\* snoozeTask, cancelTask or processDueTasks call changes it again.
C1_TerminalStatusNeverChanges ==
    [][\A i \in 1..Len(scheduled_tasks) :
          scheduled_tasks[i].status \in {"completed", "cancelled"}
          => scheduled_tasks'[i].status = scheduled_tasks[i].status]_vars

\* C2: a processDueTasks run selects and notifies every snoozed task whose
\* new due time has elapsed, like a due pending task.
C2_SnoozedTaskIsSweptWhenDue ==
    [][IsCall({"processDueTasks"})
       => \A i \in 1..Len(scheduled_tasks) :
            (scheduled_tasks[i].status = "snoozed"
             /\ scheduled_tasks[i].scheduledFor <= now)
            => \E k \in 1..Len(sent') : sent'[k] = i]_vars

\* C3: a processDueTasks run notifies exactly the pending tasks with due time
\* <= now, once each and in ascending due-time order, and inserts for each of
\* them one followup task due 4 hours later exactly when the task has no
\* recurrence pattern and high priority, and nothing else.
C3_SweepProcessesDueTasksInOrder ==
    [][IsCall({"processDueTasks"})
       => LET due == {i \in 1..Len(scheduled_tasks) :
                        /\ scheduled_tasks[i].status = "pending"
                        /\ scheduled_tasks[i].scheduledFor <= now}
              Spawns(i) == /\ scheduled_tasks[i].recurrencePattern = "none"
                           /\ scheduled_tasks[i].metadata.priority = "high"
              src == SelectSeq(sent', Spawns)
          IN  /\ {sent'[k] : k \in 1..Len(sent')} = due
              /\ Len(sent') = Cardinality(due)
              /\ \A k, l \in 1..Len(sent') :
                    k < l => scheduled_tasks[sent'[k]].scheduledFor
                               <= scheduled_tasks[sent'[l]].scheduledFor
              /\ Len(scheduled_tasks') = Len(scheduled_tasks) + Len(src)
              /\ \A k \in 1..Len(src) :
                    LET f == scheduled_tasks'[Len(scheduled_tasks) + k]
                    IN  /\ f.taskType = "followup"
                        /\ f.scheduledFor = now + 4 * 60
                        /\ f.userId = scheduled_tasks[src[k]].userId
                        /\ f.status = "pending"]_vars

C3_Witness ==
    /\ lastOp.op = "processDueTasks"
    /\ Len(sent) >= 2
    /\ scheduled_tasks[sent[1]].scheduledFor
         < scheduled_tasks[sent[2]].scheduledFor
    /\ \E k \in 1..Len(sent) :
         scheduled_tasks[sent[k]].metadata.priority # "high"
    /\ Len(scheduled_tasks) = lastOp.before + 1
    /\ scheduled_tasks[Len(scheduled_tasks)].taskType = "followup"

\* C4: one scheduleTask call with a recurrence pattern inserts at most N rows,
\* the original included, where N is maxOccurrences when given (N >= 1) and
\* 10 otherwise; all of them carry the title and the metadata of the call.
C4_RecurringRowsBounded ==
    (lastOp.op = "scheduleTask" /\ lastOp.task.recurrencePattern # "none")
    => LET cr == lastOp.task.metadata.customRecurrence
           N == IF cr.given /\ cr.maxOccurrences >= 1
                THEN cr.maxOccurrences ELSE 10
       IN  /\ Cardinality(InsertedRows) <= N
           /\ Cardinality(InsertedRows) >= 1
           /\ \A i \in InsertedRows :
                /\ scheduled_tasks[i].title = lastOp.task.title
                /\ scheduled_tasks[i].metadata = lastOp.task.metadata

C4_Witness ==
    /\ lastOp.op = "scheduleTask"
    /\ lastOp.task.recurrencePattern # "none"
    /\ lastOp.task.metadata.customRecurrence.maxOccurrences = 3
    /\ Cardinality(InsertedRows) = 3

\* C5: the k-th sibling of a recurring scheduleTask call is due at the
\* original due time plus k times the pattern's interval (24 hours daily,
\* 7 days weekly, 30 days monthly, customRecurrence interval x unit for
\* custom), and no sibling is due after the recurrence end date.
UnitMinutes(unit) ==
    CASE unit = "minutes" -> 1
      [] unit = "hours" -> 60
      [] unit = "days" -> 24 * 60
      [] unit = "weeks" -> 7 * 24 * 60
      [] unit = "months" -> 30 * 24 * 60

C5_SiblingsSpacedByPatternInterval ==
    (/\ lastOp.op = "scheduleTask"
     /\ lastOp.task.recurrencePattern # "none"
     /\ (lastOp.task.recurrencePattern = "custom"
         => lastOp.task.metadata.customRecurrence.given))
    => LET cr == lastOp.task.metadata.customRecurrence
           p == lastOp.task.recurrencePattern
           interval == CASE p = "daily" -> 24 * 60
                         [] p = "weekly" -> 7 * 24 * 60
                         [] p = "monthly" -> 30 * 24 * 60
                         [] p = "custom" -> cr.interval * UnitMinutes(cr.unit)
       IN  \A i \in InsertedRows :
             LET k == i - (lastOp.before + 1)
             IN  /\ scheduled_tasks[i].scheduledFor
                      = lastOp.task.scheduledFor + k * interval
                 /\ (k >= 1 /\ cr.given /\ cr.endDate # NoDate)
                      => scheduled_tasks[i].scheduledFor <= cr.endDate

\* C6: completeTask by the owner of an existing task sets its status to
\* completed and inserts exactly one suggestion task due 30 minutes later
\* when the task's category is 'meeting'; for any other category, whatever
\* the priority, it inserts nothing.
C6_CompleteTaskMeetingFollowUp ==
    [][(/\ IsCall({"completeTask"})
        /\ lastOp'.taskId \in 1..Len(scheduled_tasks)
        /\ scheduled_tasks[lastOp'.taskId].userId = lastOp'.userId)
       => LET id == lastOp'.taskId
              n == Len(scheduled_tasks)
          IN  /\ scheduled_tasks'[id].status = "completed"
              /\ IF scheduled_tasks[id].metadata.category = "meeting"
                 THEN /\ Len(scheduled_tasks') = n + 1
                      /\ scheduled_tasks'[n + 1].taskType = "suggestion"
                      /\ scheduled_tasks'[n + 1].scheduledFor = now + 30
                      /\ scheduled_tasks'[n + 1].userId = lastOp'.userId
                 ELSE Len(scheduled_tasks') = n]_vars

C6_Witness ==
    /\ lastOp.op = "completeTask"
    /\ lastOp.taskId \in 1..lastOp.before
    /\ scheduled_tasks[lastOp.taskId].userId = lastOp.userId
    /\ scheduled_tasks[lastOp.taskId].status = "completed"
    /\ scheduled_tasks[lastOp.taskId].metadata.category = "meeting"
    /\ scheduled_tasks[lastOp.taskId].metadata.priority = "high"
    /\ Len(scheduled_tasks) = lastOp.before + 1
    /\ scheduled_tasks[Len(scheduled_tasks)].taskType = "suggestion"

\* C7: completeTask, snoozeTask or cancelTask called with a user other than
\* the task's owner leaves every row unchanged and inserts no row.
C7_ForeignCallerChangesNothing ==
    [][(/\ IsCall({"completeTask", "snoozeTask", "cancelTask"})
        /\ lastOp'.taskId \in 1..Len(scheduled_tasks)
        /\ scheduled_tasks[lastOp'.taskId].userId # lastOp'.userId)
       => scheduled_tasks' = scheduled_tasks]_vars

(***************************************************************************)
(* Properties of the UsageTracker and of the quota check of POST /chat.    *)
(***************************************************************************)
\* C8: whatever the interleaving of a user's POST /chat requests, the number
\* of requests sent to a model within one calendar month never exceeds the
\* user's apiCalls limit.
C8_DispatchedWithinQuota ==
    \A e \in BagToSet(dispatched) :
        CopiesIn(e, dispatched) <= SUBSCRIPTION_TIERS[1].limits.apiCalls

\* C9: for a user within all limits, canMakeRequest('api_call', q) allows the
\* request exactly when apiCalls usage + q <= the limit L = 10000; at usage
\* 10000 with q = 1 it denies with reason 'API call limit exceeded'.
C9_ApiCallAllowedIffWithinLimit ==
    (lastCheck.type = "api_call" /\ lastCheck.withinLimits)
    => /\ lastCheck.result.allowed
            <=> (lastCheck.usage.apiCalls + lastCheck.quantity <= 10000)
       /\ (lastCheck.usage.apiCalls = 10000 /\ lastCheck.quantity = 1)
            => /\ ~lastCheck.result.allowed
               /\ lastCheck.result.reason = "API call limit exceeded"

C9_Witness ==
    /\ lastCheck.type = "api_call"
    /\ lastCheck.withinLimits
    /\ lastCheck.usage.apiCalls = 10000
    /\ lastCheck.quantity = 1
    /\ ~lastCheck.result.allowed

\* C10: when checkLimits reports withinLimits = false for the usage a
\* canMakeRequest call reads, the call returns allowed = false for every
\* kind and quantity, with a reset time on the first day of the next month.
C10_DeniedWheneverOverLimits ==
    (lastCheck.type # "" /\ ~lastCheck.withinLimits)
    => /\ ~lastCheck.result.allowed
       /\ lastCheck.result.resetTime =
            IF lastCheck.at.month = 11
            THEN [year |-> lastCheck.at.year + 1, month |-> 0, day |-> 1]
            ELSE [year |-> lastCheck.at.year,
                  month |-> lastCheck.at.month + 1, day |-> 1]

C10_Witness ==
    /\ lastCheck.type = "file_upload"
    /\ ~lastCheck.withinLimits
    /\ lastCheck.usage.apiCalls <= 10000
    /\ lastCheck.at.month = 11
    /\ ~lastCheck.result.allowed

\* C11: when canMakeRequest('api_call', 1, user) returns allowed = false,
\* POST /chat answers 429 with the body {error, message, resetTime} of the
\* denial, the step calls no model and records no usage event, and the
\* request takes no further step: it is never sent to the model and never
\* tracked.
C11_DeniedRequestAnswered429 ==
    [][\A r \in Requests :
        LET usageLimits == canMakeRequest(usage_events, "api_call", 1,
                                          req[r].userId, today, "none")
        IN  /\ (/\ req[r].pc = "auth"
                /\ req'[r].pc # "auth"
                /\ req[r].userId # NoUser
                /\ ~usageLimits.allowed)
               => /\ req'[r].pc = "done"
                  /\ req'[r].status = 429
                  /\ req'[r].body =
                        [error |-> "Usage limit exceeded",
                         message |-> usageLimits.reason,
                         resetTime |-> usageLimits.resetTime]
                  /\ req'[r].body.message # ""
                  /\ dispatched' = dispatched
                  /\ usage_events' = usage_events
            /\ req[r].status = 429 => req'[r] = req[r]]_vars

C11_Witness ==
    \E r \in Requests :
        /\ req[r].pc = "done"
        /\ req[r].status = 429
        /\ req[r].body.message = "API call limit exceeded"
        /\ req[r].body.resetTime = [year |-> 2025, month |-> 11, day |-> 1]

(***************************************************************************)
(* Properties of the HTTP endpoints.                                       *)
(***************************************************************************)
Tables ==
    <<scheduled_tasks, ai_personas, proactive_suggestions, usage_events>>

\* C12: a tasks, personas or suggestions handler called without a session
\* answers 401, issues no persistence statement and changes no table; a
\* POST /chat without a session answers 401 in a step that runs no quota
\* check, calls no model and records no usage event, and the request takes
\* no further step.
C12_UnauthenticatedGets401Only ==
    [][/\ (httpCalls' = httpCalls + 1 /\ http'.session = NoUser)
          => /\ http'.status = 401
             /\ http'.queries = 0
             /\ Tables' = Tables
             /\ dispatched' = dispatched
             /\ lastOp' = lastOp
       /\ \A r \in Requests :
            /\ (req[r].pc = "auth" /\ req[r].userId = NoUser
                    /\ req'[r] # req[r])
               => /\ req'[r].pc = "done"
                  /\ req'[r].status = 401
                  /\ Tables' = Tables
                  /\ dispatched' = dispatched
                  /\ lastCheck' = lastCheck
            /\ req[r].status = 401 => req'[r] = req[r]]_vars

C12_Witness ==
    /\ http.route = "DELETE /personas/{id}"
    /\ http.session = NoUser
    /\ http.status = 401
    /\ Len(ai_personas) > 0

(***************************************************************************)
(* Properties of UsageTracker.track under failures.                        *)
(***************************************************************************)
\* C13: a track call never throws to its caller: when the session lookup or
\* the insert fails it logs the error and appends no row, on success it
\* appends exactly one usage event of the user; the chat request that
\* started it has answered 200 in either case.
C13_TrackNeverThrows ==
    [][\A r \in Requests :
        (req[r].pc = "track" /\ req'[r].pc = "done")
        => /\ lastTrack'.thrown = ""
           /\ lastTrack'.fault # "none"
                => /\ lastTrack'.logged # ""
                   /\ usage_events' = usage_events
           /\ lastTrack'.fault = "none"
                => /\ lastTrack'.logged = ""
                   /\ usage_events' = usage_events (+)
                        SetToBag({UsageEvent(req[r].userId, "api_call", 1,
                                             today)})
           /\ req[r].status = 200
           /\ req'[r].status = 200]_vars

C13_Witness ==
    /\ lastTrack.fault = "insert"
    /\ lastTrack.logged = "Database query error"
    /\ lastTrack.thrown = ""
    /\ \E r \in Requests :
        /\ req[r].pc = "done"
        /\ req[r].status = 200
        /\ req[r].userId = "u2"
    /\ \A e \in BagToSet(usage_events) : e.userId # "u2"

(***************************************************************************)
(* Properties of the ModelOptimizer.  The features a call requires and the *)
(* models that qualify for it are stated from the call's inputs.           *)
(***************************************************************************)
\* vision with attachments, reasoning with an analytic trigger word
RequiredOf(call) ==
    (IF call.hasAttachments THEN {"vision"} ELSE {})
    \cup (IF call.inputText.head \in TriggerTexts THEN {"reasoning"} ELSE {})

TierRank(tier) == CHOOSE t \in 1..Len(tierHierarchy) : tierHierarchy[t] = tier

AtTier(m, tier) == TierRank(m.tier) <= TierRank(tier)

CatalogModels == {AVAILABLE_MODELS[i] : i \in 1..Len(AVAILABLE_MODELS)}

\* the catalog models available at the tier that have every required feature
Qualifying(tier, required) ==
    {m \in CatalogModels : AtTier(m, tier) /\ required \subseteq m.features}

\* C14: when no model available at the user's tier has every required
\* feature, recommendForInput does not fail and returns as primary the first
\* model available at the tier, for every strategy.
C14_SoftFallbackWhenNoneQualifies ==
    (/\ lastRecommend.called
     /\ Qualifying(optimizer.userTier, RequiredOf(lastRecommend)) = {})
    => /\ ~lastRecommend.returned.thrown
       /\ lastRecommend.returned.primary
            = First(getModelsForTier(optimizer.userTier))

\* C15: for every strategy and tier, when some model available at the tier
\* has every required feature, the primary and every fallback returned are
\* available at the tier and have every required feature; when exactly one
\* model qualifies it is the primary and there is no fallback.
C15_RecommendedModelsQualify ==
    LET required == RequiredOf(lastRecommend)
        qualifying == Qualifying(optimizer.userTier, required)
        returned == lastRecommend.returned
    IN  (lastRecommend.called /\ qualifying # {})
        => /\ ~returned.thrown
           /\ returned.primary \in qualifying
           /\ \A i \in 1..Len(returned.fallbacks) :
                returned.fallbacks[i] \in qualifying
           /\ Cardinality(qualifying) = 1
                => /\ qualifying = {returned.primary}
                   /\ returned.fallbacks = <<>>

C15_Witness ==
    /\ lastRecommend.called
    /\ RequiredOf(lastRecommend) = {"vision", "reasoning"}
    /\ optimizer.userTier = "enterprise"
    /\ lastRecommend.returned.primary.id = "anthropic/claude-3-opus:beta"
    /\ lastRecommend.returned.fallbacks = <<>>

\* C16: whenever recommendForInput returns a recommendation, its fallback
\* list does not hold the primary model's identifier and has at most three
\* entries.
C16_FallbacksExcludePrimaryAtMostThree ==
    (lastRecommend.called /\ ~lastRecommend.returned.thrown)
    => /\ \A i \in 1..Len(lastRecommend.returned.fallbacks) :
            lastRecommend.returned.fallbacks[i].id
                # lastRecommend.returned.primary.id
       /\ Len(lastRecommend.returned.fallbacks) <= 3

C16_Witness ==
    /\ lastRecommend.called
    /\ ~lastRecommend.returned.thrown
    /\ Cardinality(Qualifying(optimizer.userTier,
                              RequiredOf(lastRecommend))) > 4
    /\ Len(lastRecommend.returned.fallbacks) = 3

\* C20: with strategy cost the primary is a qualifying model whose input
\* plus output cost per 1k tokens is the least among the qualifying models,
\* and no qualifying model earlier in the catalog costs as little.
C20_CostStrategyPicksCheapest ==
    LET qualifying == Qualifying(optimizer.userTier, RequiredOf(lastRecommend))
        primary == lastRecommend.returned.primary
    IN  (/\ lastRecommend.called
         /\ optimizer.strategy = "cost"
         /\ qualifying # {})
        => /\ primary \in qualifying
           /\ \A m \in qualifying : TotalCost(primary) <= TotalCost(m)
           /\ \A i \in 1..Len(AVAILABLE_MODELS) :
                (/\ AVAILABLE_MODELS[i] \in qualifying
                 /\ TotalCost(AVAILABLE_MODELS[i]) = TotalCost(primary))
                => indexOf(AVAILABLE_MODELS, primary) + 1 <= i

C20_Witness ==
    /\ lastRecommend.called
    /\ optimizer.strategy = "cost"
    /\ optimizer.userTier = "professional"
    /\ RequiredOf(lastRecommend) = {}
    /\ lastRecommend.returned.primary.id = "gemini-1.5-flash"

\* the position of the first entry of a list in a set of positions, 0 if none
FirstIn(positions) ==
    IF positions = {} THEN 0
    ELSE CHOOSE i \in positions : \A j \in positions : i <= j

C18_FailureHandlingHasNoSideEffect ==
    [][failures' = failures + 1
       => /\ recommendation' = recommendation
          /\ (/\ failover'.errorType = "unavailable"
              /\ optimizer.fallbackEnabled = "true"
              /\ Len(lastRecommend.returned.fallbacks) > 0)
             => failover'.result = lastRecommend.returned.fallbacks[1]]_vars

(***************************************************************************)
(* Properties of POST /chat under provider failures.                       *)
(***************************************************************************)
\* the replacement the exported optimizer's policy selects for a request to
\* the default model given a short plain message
Replacement(errorType) ==
    handleModelFailure(
        optimizer, "gpt-4o-mini", errorType,
        recommendForInput(optimizer,
                          InputText(<<"H", "e", "l", "l", "o", " ", "t", "h", "e", "r", "e">>, 19),
                          FALSE, "medium")).result

\* C19: a provider failure of a chat request reaches the caller only if no
\* fallback succeeds: when the fallback-selection policy has a replacement
\* for the failure, the request has tried more than one model before the
\* error is surfaced.
C19_ProviderFailureTriesFallback ==
    \A r \in Requests :
        (req[r].surfaced # "none" /\ Replacement(req[r].surfaced) # Null)
        => req[r].modelsTried > 1

\* the Mini and Flash models of the catalog
Lightweight == {"gpt-4o-mini", "gemini-1.5-flash"}

\* C21: with strategy speed the primary is a qualifying Mini or Flash model
\* whenever one qualifies; otherwise it is the first qualifying openai model
\* of the catalog, or the first qualifying model when openai has none.
C21_SpeedStrategyPicksLightweight ==
    LET qualifying == Qualifying(optimizer.userTier, RequiredOf(lastRecommend))
        primary == lastRecommend.returned.primary
        light == {m \in qualifying : m.id \in Lightweight}
        openai == {m \in qualifying : m.provider = "openai"}
        preferred == IF openai # {} THEN openai ELSE qualifying
    IN  (/\ lastRecommend.called
         /\ optimizer.strategy = "speed"
         /\ qualifying # {})
        => IF light # {}
           THEN primary \in light
           ELSE /\ primary \in preferred
                /\ \A m \in preferred :
                    indexOf(AVAILABLE_MODELS, primary)
                        <= indexOf(AVAILABLE_MODELS, m)

(***************************************************************************)
(* Properties of the tasks handlers over a database that may fail.         *)
(***************************************************************************)
\* C22: when an INSERT of a sibling fails during the expansion of a
\* recurring task, POST /tasks answers 500 and the rows inserted before the
\* failure, the original and the earlier siblings, are in the table after
\* the call, behind the rows it held before.
C22_FailedExpansionKeepsEarlierRows ==
    [][(/\ IsCall({"scheduleTask"})
        /\ http'.route = "POST /tasks"
        /\ http'.fault = "insert"
        /\ lastOp'.task.recurrencePattern # "none"
        /\ http'.queries >= 2)
       => LET task == lastOp'.task
              inserted == http'.queries - 1
              interval == getRecurrenceInterval(task.recurrencePattern)
          IN  /\ http'.status = 500
              /\ Len(scheduled_tasks') = Len(scheduled_tasks) + inserted
              /\ SubSeq(scheduled_tasks', 1, Len(scheduled_tasks))
                    = scheduled_tasks
              /\ scheduled_tasks'[Len(scheduled_tasks) + 1] = task
              /\ \A k \in 2..inserted :
                    scheduled_tasks'[Len(scheduled_tasks) + k]
                        = [task EXCEPT !.scheduledFor =
                                            @ + interval * (k - 1),
                                       !.status = "pending"]
      ]_vars

\* the third INSERT of an expansion failed: the original and its first
\* sibling are stored
C22_Witness ==
    /\ http.route = "POST /tasks"
    /\ http.fault = "insert"
    /\ http.status = 500
    /\ http.queries = 3
    /\ lastOp.op = "scheduleTask"
    /\ lastOp.task.recurrencePattern = "daily"
    /\ Len(scheduled_tasks) = lastOp.before + 2
    /\ scheduled_tasks[lastOp.before + 2].scheduledFor
            = lastOp.task.scheduledFor + 24 * 60

(***************************************************************************)
(* Further properties of the TaskScheduler.                                *)
(***************************************************************************)
\* C23: snoozeTask by the owner of a task sets its due time to the clock
\* plus the minutes passed, 60 when none are passed, and its status to
\* snoozed; completeTask by the owner of a snoozed task sets its status to
\* completed.
C23_SnoozeThenComplete ==
    [][LET id == lastOp'.taskId
           owned == /\ HasTask(scheduled_tasks, id)
                    /\ scheduled_tasks[id].userId = lastOp'.userId
       IN  /\ (IsCall({"snoozeTask"}) /\ owned)
                => /\ scheduled_tasks'[id].scheduledFor
                        = now + (IF lastOp'.minutes = NoMinutes
                                 THEN 60 ELSE lastOp'.minutes)
                   /\ scheduled_tasks'[id].status = "snoozed"
           /\ (/\ IsCall({"completeTask"})
               /\ owned
               /\ scheduled_tasks[id].status = "snoozed")
                => scheduled_tasks'[id].status = "completed"
      ]_vars

\* a task snoozed for 30 minutes four hours after it was due, then completed
C23_Witness ==
    /\ lastOp.op = "completeTask"
    /\ HasTask(scheduled_tasks, lastOp.taskId)
    /\ scheduled_tasks[lastOp.taskId].title = "Standup"
    /\ scheduled_tasks[lastOp.taskId].userId = lastOp.userId
    /\ scheduled_tasks[lastOp.taskId].status = "completed"
    /\ scheduled_tasks[lastOp.taskId].scheduledFor = 4 * 60 + 30

(***************************************************************************)
(* Properties of the cost estimate.                                        *)
(***************************************************************************)
\* C24: for every model of the catalog, estimateConversationCost returns
\* inputTokens / 1000 * input cost + outputTokens / 1000 * output cost
\* rounded up to a whole number of cents (costs being thousandths of a cent
\* here, the sum of the products is in millionths of a cent).
C24_CostEstimateIsCeiling ==
    LET model == FindById(lastEstimate.modelId)
        millionths == lastEstimate.inputTokens * model.costPer1kTokens.input
                      + lastEstimate.outputTokens
                            * model.costPer1kTokens.output
    IN  (lastEstimate.called /\ model # Undefined)
        => lastEstimate.returned = (millionths + 999999) \div 1000000

(***************************************************************************)
(* Properties of the catalog.                                              *)
(***************************************************************************)
\* C25: every model getModelsForTier returns for a tier at or below the
\* tier of the optimizer, in the order free, starter, professional,
\* enterprise, is also returned for the optimizer's tier.
C25_TierMonotonicity ==
    \A t1 \in 1..Len(tierHierarchy) :
        t1 <= TierRank(optimizer.userTier)
        => \A i \in 1..Len(getModelsForTier(tierHierarchy[t1])) :
                \E j \in 1..Len(getModelsForTier(optimizer.userTier)) :
                    getModelsForTier(optimizer.userTier)[j]
                        = getModelsForTier(tierHierarchy[t1])[i]

\* a recommendation at the enterprise tier, whose models are those of the
\* starter tier and more
C25_Witness ==
    /\ lastRecommend.called
    /\ optimizer.userTier = "enterprise"
    /\ lastRecommend.returned.primary.tier = "enterprise"
    /\ Len(getModelsForTier("free")) = 0
    /\ Len(getModelsForTier("starter")) > 0
    /\ Len(getModelsForTier("starter")) < Len(getModelsForTier("professional"))
    /\ Len(getModelsForTier("professional"))
            < Len(getModelsForTier("enterprise"))

C27_FollowUpsTriggerNothing ==
    [][/\ IsCall({"processDueTasks", "completeTask"})
          => \A k \in (Len(scheduled_tasks) + 1)..Len(scheduled_tasks') :
                /\ scheduled_tasks'[k].metadata.priority = "medium"
                /\ scheduled_tasks'[k].metadata.category = "followup"
                /\ scheduled_tasks'[k].recurrencePattern = "none"
       /\ IsCall({"processDueTasks"})
          => Len(scheduled_tasks') - Len(scheduled_tasks)
                <= Cardinality({k \in 1..Len(sent') :
                        scheduled_tasks[sent'[k]].metadata.category
                            # "followup"})
       /\ (/\ IsCall({"completeTask"})
           /\ HasTask(scheduled_tasks, lastOp'.taskId)
           /\ scheduled_tasks[lastOp'.taskId].metadata.category = "followup")
          => Len(scheduled_tasks') = Len(scheduled_tasks)
      ]_vars

\* a sweep that notified a followup task of an earlier sweep together with
\* the task it follows up, and added one row
C27_Witness ==
    /\ lastOp.op = "processDueTasks"
    /\ Len(sent) = 2
    /\ \E k \in 1..Len(sent) :
        /\ sent[k] <= lastOp.before
        /\ scheduled_tasks[sent[k]].taskType = "followup"
        /\ scheduled_tasks[sent[k]].metadata.category = "followup"
    /\ Len(scheduled_tasks) = lastOp.before + 1

\* C28: when the usage lookup of a canMakeRequest call fails with a
\* persistence error, getCurrentUsage reports zero usage, checkLimits
\* reports withinLimits = true and canMakeRequest returns allowed = true,
\* for every kind and quantity and whatever the user has on record.
C28_QuotaCheckFailsOpen ==
    lastCheck.fault = "query"
    => /\ lastCheck.usage = [apiCalls |-> 0, tokens |-> 0, storage |-> 0,
                             toolExecutions |-> 0]
       /\ lastCheck.withinLimits
       /\ lastCheck.result.allowed

\* C28, amended: after a failed lookup the usage is zero and withinLimits
\* is true whatever is on record, and canMakeRequest allows the request
\* unless its quantity alone exceeds the starter limit of its kind
\* (10000 api calls, 1000000 tokens, 100 tool executions), which it denies
\* with the reason of the kind.
C28_FailedLookupCountsAsZeroUsage ==
    lastCheck.fault = "query"
    => /\ lastCheck.usage = [apiCalls |-> 0, tokens |-> 0, storage |-> 0,
                             toolExecutions |-> 0]
       /\ lastCheck.withinLimits
       /\ lastCheck.result.allowed
            <=> ~ \/ lastCheck.type = "api_call" /\ lastCheck.quantity > 10000
                  \/ lastCheck.type = "token_usage"
                        /\ lastCheck.quantity > 1000000
                  \/ lastCheck.type = "tool_execution"
                        /\ lastCheck.quantity > 100
       /\ (lastCheck.type = "tool_execution" /\ lastCheck.quantity = 101)
            => lastCheck.result.reason = "Tool execution limit exceeded"

\* a user over the limit on record is allowed a request after a failed lookup
C28_Witness ==
    /\ lastCheck.fault = "query"
    /\ lastCheck.recorded.apiCalls > 10000
    /\ lastCheck.withinLimits
    /\ lastCheck.result.allowed

\* C29: PATCH /tasks/{id} by an authenticated user answers 200 with
\* {success: true} for the actions complete, snooze and cancel, also when
\* the call changed no row because the task does not exist, belongs to
\* another user or the UPDATE failed; only an unknown action is answered
\* 400, and then the scheduler is not called.
C29_PatchTaskAlwaysSucceeds ==
    [][(/\ httpCalls' = httpCalls + 1
        /\ http'.route = "PATCH /tasks/{id}"
        /\ http'.session # NoUser)
       => /\ http'.status \in {200, 400}
          /\ http'.status = 200
                <=> IsCall({"completeTask", "snoozeTask", "cancelTask"})
          /\ http'.status = 400
                <=> UNCHANGED <<calls, lastOp, scheduled_tasks>>
          /\ http'.fault = "update" => scheduled_tasks' = scheduled_tasks]_vars

\* a cancel whose UPDATE failed left the caller's pending task as it was and
\* was answered 200
C29_Witness ==
    /\ http.route = "PATCH /tasks/{id}"
    /\ http.status = 200
    /\ http.fault = "update"
    /\ lastOp.op = "cancelTask"
    /\ lastOp.taskId \in 1..Len(scheduled_tasks)
    /\ scheduled_tasks[lastOp.taskId].userId = http.session
    /\ scheduled_tasks[lastOp.taskId].status = "pending"

\* C30: no step of the suggestions handlers (GET, POST generate, PATCH with
\* mark_shown, dismiss, interact or complete) removes a row or takes a
\* row's shown or dismissed flag from true to false, and a GET /suggestions
\* without include_shown returns only rows of the caller that are neither
\* shown nor dismissed: a suggestion once shown or dismissed is never
\* returned by it again.
C30_ShownAndDismissedOnlyRise ==
    [][/\ Len(proactive_suggestions') >= Len(proactive_suggestions)
       /\ \A i \in 1..Len(proactive_suggestions) :
            /\ proactive_suggestions'[i].userId
                    = proactive_suggestions[i].userId
            /\ proactive_suggestions[i].shown
                    => proactive_suggestions'[i].shown
            /\ proactive_suggestions[i].dismissed
                    => proactive_suggestions'[i].dismissed
       /\ (httpCalls' = httpCalls + 1 /\ http'.route = "GET /suggestions")
            => \A i \in http'.rows :
                    /\ proactive_suggestions'[i].userId = http'.session
                    /\ ~proactive_suggestions'[i].shown
                    /\ ~proactive_suggestions'[i].dismissed]_vars

\* after a PATCH that dismissed or showed one of the caller's two
\* suggestions, GET /suggestions returns the other one only
C30_Witness ==
    /\ httpCalls = 2
    /\ http.route = "GET /suggestions"
    /\ http.status = 200
    /\ Cardinality(http.rows) = 1
    /\ \E i \in 1..Len(proactive_suggestions) :
        /\ i \notin http.rows
        /\ proactive_suggestions[i].userId = http.session
        /\ \/ proactive_suggestions[i].dismissed
           \/ proactive_suggestions[i].shown

====
